---------------------------- MODULE Spec2Model ----------------------------
(***************************************************************************)
(* Title Resolution Pipeline of AR-Poster.                                 *)
(*                                                                         *)
(*   stage A  src/server.js  extractGenericTitle .. applyGenericCleanup    *)
(*   stage B  src/src/services/TMDbService.js  findBestMatch,              *)
(*            calculateSimilarity                                          *)
(*                                                                         *)
(* A JavaScript Number is modelled as an exact fraction n/d.  d = 0 holds  *)
(* the three non-finite values: 1/0 is Infinity, -1/0 is -Infinity and 0/0 *)
(* is NaN.  A string is modelled as a sequence of one-character strings.   *)
(***************************************************************************)
EXTENDS Integers, Sequences, FiniteSets, TLC

(***************************************************************************)
(* Bounds of the model.                                                    *)
(***************************************************************************)
MaxBlocks == 3

\* SpecRepeat: the longest detection list, and the number of calls in a row
MaxRepeatBlocks == 2

MaxCalls == 3

\* SpecSimilarity: the longest string
MaxStringLength == 3

\* SpecRank: the longest record list
MaxRecords == 3

\* SpecCleanup: the longest title candidate
MaxTitleLength == 4

(***************************************************************************)
(* JavaScript numbers.                                                     *)
(***************************************************************************)
NaN == [n |-> 0, d |-> 0]

Abs(x) == IF x < 0 THEN -x ELSE x

Sign(x) == IF x < 0 THEN -1 ELSE IF x > 0 THEN 1 ELSE 0

RECURSIVE Gcd(_, _)
Gcd(a, b) == IF b = 0 THEN a ELSE Gcd(b, a % b)

\* The fraction n/d in lowest terms, d > 0; n/0 is Infinity, -Infinity or NaN.
Num(n, d) ==
    IF d = 0 THEN [n |-> Sign(n), d |-> 0]
    ELSE LET g == Gcd(Abs(n), Abs(d))
             s == Sign(d)
         IN  [n |-> (s * n) \div g, d |-> (s * d) \div g]

Int2Num(k) == [n |-> k, d |-> 1]

IsNaN(a) == a.d = 0 /\ a.n = 0

IsFinite(a) == a.d # 0

\* a + b
NumAdd(a, b) ==
    IF IsNaN(a) \/ IsNaN(b) THEN NaN
    ELSE IF a.d = 0 /\ b.d = 0 THEN (IF a.n = b.n THEN a ELSE NaN)
    ELSE IF a.d = 0 THEN a
    ELSE IF b.d = 0 THEN b
    ELSE LET g == Gcd(a.d, b.d)
         IN  Num(a.n * (b.d \div g) + b.n * (a.d \div g), (a.d \div g) * b.d)

\* a - b
NumSub(a, b) == NumAdd(a, [n |-> -b.n, d |-> b.d])

\* a * b
NumMul(a, b) ==
    IF IsNaN(a) \/ IsNaN(b) THEN NaN
    ELSE IF a.d = 0 \/ b.d = 0 THEN Num(Sign(a.n) * Sign(b.n), 0)
    ELSE LET g1 == Gcd(Abs(a.n), b.d)
             g2 == Gcd(Abs(b.n), a.d)
         IN  Num((a.n \div g1) * (b.n \div g2), (a.d \div g2) * (b.d \div g1))

\* a / b; a zero divisor gives Infinity, -Infinity or NaN
NumDiv(a, b) ==
    IF IsNaN(a) \/ IsNaN(b) THEN NaN
    ELSE IF a.d = 0 /\ b.d = 0 THEN NaN
    ELSE IF a.d = 0 THEN Num(a.n * (IF b.n < 0 THEN -1 ELSE 1), 0)
    ELSE IF b.d = 0 THEN Int2Num(0)
    ELSE IF b.n = 0 THEN Num(a.n, 0)
    ELSE NumMul(a, Num(b.d, b.n))

\* a < b; false when either side is NaN
NumLt(a, b) ==
    IF IsNaN(a) \/ IsNaN(b) THEN FALSE
    ELSE IF a.d = 0 /\ b.d = 0 THEN a.n < b.n
    ELSE IF a.d = 0 THEN a.n < 0
    ELSE IF b.d = 0 THEN b.n > 0
    ELSE LET g == Gcd(a.d, b.d)
         IN  a.n * (b.d \div g) < b.n * (a.d \div g)

\* a <= b; false when either side is NaN
NumLe(a, b) == ~IsNaN(a) /\ ~IsNaN(b) /\ ~NumLt(b, a)

\* Math.abs
NumAbs(a) == [n |-> Abs(a.n), d |-> a.d]

\* Math.min of two numbers: NaN if either is NaN
NumMin(a, b) ==
    IF IsNaN(a) \/ IsNaN(b) THEN NaN ELSE IF NumLt(b, a) THEN b ELSE a

\* Math.max of two numbers: NaN if either is NaN
NumMax(a, b) ==
    IF IsNaN(a) \/ IsNaN(b) THEN NaN ELSE IF NumLt(a, b) THEN b ELSE a

(***************************************************************************)
(* JavaScript strings: sequences of characters.                            *)
(***************************************************************************)
UpperLetters ==
    <<"A","B","C","D","E","F","G","H","I","J","K","L","M",
      "N","O","P","Q","R","S","T","U","V","W","X","Y","Z">>

LowerLetters ==
    <<"a","b","c","d","e","f","g","h","i","j","k","l","m",
      "n","o","p","q","r","s","t","u","v","w","x","y","z">>

Range(s) == {s[k] : k \in 1..Len(s)}

UpperSet == Range(UpperLetters)

LowerSet == Range(LowerLetters)

\* [A-Z]
IsUpperC(c) == c \in UpperSet

\* [a-zA-Z]
IsLetterC(c) == c \in UpperSet \/ c \in LowerSet

\* \d
IsDigitC(c) == c \in {"0","1","2","3","4","5","6","7","8","9"}

\* \w
IsWordC(c) == IsLetterC(c) \/ IsDigitC(c) \/ c = "_"

\* \s
IsSpaceC(c) == c = " "

ToUpperC(c) ==
    IF c \in LowerSet
    THEN UpperLetters[CHOOSE k \in 1..26 : LowerLetters[k] = c]
    ELSE c

ToLowerC(c) ==
    IF c \in UpperSet
    THEN LowerLetters[CHOOSE k \in 1..26 : UpperLetters[k] = c]
    ELSE c

\* String.prototype.toUpperCase
ToUpperCase(s) == [k \in 1..Len(s) |-> ToUpperC(s[k])]

\* String.prototype.toLowerCase
ToLowerCase(s) == [k \in 1..Len(s) |-> ToLowerC(s[k])]

RECURSIVE TrimStart(_)
TrimStart(s) ==
    IF s # <<>> /\ IsSpaceC(Head(s)) THEN TrimStart(Tail(s)) ELSE s

RECURSIVE TrimEnd(_)
TrimEnd(s) ==
    IF s # <<>> /\ IsSpaceC(s[Len(s)])
    THEN TrimEnd(SubSeq(s, 1, Len(s) - 1))
    ELSE s

\* String.prototype.trim
Trim(s) == TrimEnd(TrimStart(s))

\* String.prototype.endsWith
EndsWith(s, suffix) ==
    /\ Len(suffix) <= Len(s)
    /\ SubSeq(s, Len(s) - Len(suffix) + 1, Len(s)) = suffix

\* String.prototype.startsWith
StartsWith(s, prefix) ==
    /\ Len(prefix) <= Len(s)
    /\ SubSeq(s, 1, Len(prefix)) = prefix

\* String.prototype.includes
Includes(s, sub) ==
    \E k \in 0..(Len(s) - Len(sub)) : SubSeq(s, k + 1, k + Len(sub)) = sub

\* text.split(/\s+/): the pieces between maximal runs of white space; a
\* leading or trailing run yields an empty first or last piece.
RECURSIVE SplitFrom(_, _, _)
SplitFrom(s, k, cur) ==
    IF k > Len(s) THEN <<cur>>
    ELSE IF IsSpaceC(s[k])
         THEN IF k > 1 /\ IsSpaceC(s[k - 1])
              THEN SplitFrom(s, k + 1, cur)
              ELSE <<cur>> \o SplitFrom(s, k + 1, <<>>)
         ELSE SplitFrom(s, k + 1, Append(cur, s[k]))

SplitWhitespace(s) == SplitFrom(s, 1, <<>>)

\* Array.prototype.join(' ')
RECURSIVE JoinSpace(_)
JoinSpace(words) ==
    IF words = <<>> THEN <<>>
    ELSE IF Len(words) = 1 THEN words[1]
    ELSE words[1] \o <<" ">> \o JoinSpace(Tail(words))

\* .replace(/\s+/g, ' ')
RECURSIVE CollapseWhitespace(_)
CollapseWhitespace(s) ==
    IF s = <<>> THEN <<>>
    ELSE IF IsSpaceC(Head(s))
         THEN <<" ">> \o CollapseWhitespace(TrimStart(s))
         ELSE <<Head(s)>> \o CollapseWhitespace(Tail(s))

\* .replace(/\s*:\s*/g, ': ')
RECURSIVE NormalizeColons(_)
NormalizeColons(s) ==
    IF s = <<>> THEN <<>>
    ELSE LET rest == TrimStart(s)
         IN  IF rest # <<>> /\ Head(rest) = ":"
             THEN <<":", " ">> \o NormalizeColons(TrimStart(Tail(rest)))
             ELSE <<Head(s)>> \o NormalizeColons(Tail(s))

(***************************************************************************)
(* src/server.js: the keyboard / UI text test.                             *)
(***************************************************************************)
LockPrefixes ==
    { <<"n","u","m">>, <<"s","c","r","o","l","l">>, <<"c","a","p","s">> }

\* the patterns that are a list of whole words, in lower case
KeyboardWords ==
    { \* /^(Home|End|Insert|Del|Delete|Esc|Tab|Enter|Return|Space|Backspace)$/i
      <<"h","o","m","e">>, <<"e","n","d">>, <<"i","n","s","e","r","t">>,
      <<"d","e","l">>, <<"d","e","l","e","t","e">>, <<"e","s","c">>,
      <<"t","a","b">>, <<"e","n","t","e","r">>, <<"r","e","t","u","r","n">>,
      <<"s","p","a","c","e">>, <<"b","a","c","k","s","p","a","c","e">>,
      \* /^(Ctrl|Alt|Shift|Win|Cmd|Fn)$/i
      <<"c","t","r","l">>, <<"a","l","t">>, <<"s","h","i","f","t">>,
      <<"w","i","n">>, <<"c","m","d">>, <<"f","n">>,
      \* /^(PrtSc|SysRq|Pause|Break|PgUp|PgDn|PriSc|ScrLk)$/i
      <<"p","r","t","s","c">>, <<"s","y","s","r","q">>,
      <<"p","a","u","s","e">>, <<"b","r","e","a","k">>, <<"p","g","u","p">>,
      <<"p","g","d","n">>, <<"p","r","i","s","c">>, <<"s","c","r","l","k">>,
      \* /^(Up|Down|Left|Right|Nav)$/i
      <<"u","p">>, <<"d","o","w","n">>, <<"l","e","f","t">>,
      <<"r","i","g","h","t">>, <<"n","a","v">>,
      \* /^(KB|BR|DB|DIB)$/i
      <<"k","b">>, <<"b","r">>, <<"d","b">>, <<"d","i","b">>,
      \* /^(OK|Cancel|Menu)$/i
      <<"o","k">>, <<"c","a","n","c","e","l">>, <<"m","e","n","u">> }

KeyboardRows ==
    { {"Q","W","E","R","T","Y","U","I","O","P"},
      {"A","S","D","F","G","H","J","K","L"},
      {"Z","X","C","V","B","N","M"} }

AllChars(s, Test(_)) == \A k \in 1..Len(s) : Test(s[k])

\* /^F\d{1,2}$/i
IsFunctionKey(text) ==
    /\ Len(text) \in {2, 3}
    /\ ToUpperC(text[1]) = "F"
    /\ \A k \in 2..Len(text) : IsDigitC(text[k])

\* /^(Num|Scroll|Caps)\s*Lock$/i
IsLockKey(text) ==
    LET low == ToLowerCase(text)
    IN  \E p \in LockPrefixes :
            /\ StartsWith(low, p)
            /\ TrimStart(SubSeq(low, Len(p) + 1, Len(low)))
                   = <<"l","o","c","k">>

\* keyboardPatterns.some(pattern => pattern.test(text))
MatchesKeyboardPattern(text) ==
    LET low == ToLowerCase(text)
    IN  \/ IsFunctionKey(text)
        \/ low \in KeyboardWords
        \/ \E row \in KeyboardRows :
               Len(text) = 1 /\ ToUpperC(text[1]) \in row
        \/ IsLockKey(text)
        \/ (Len(text) = 1 /\ IsUpperC(text[1]))

IsDigitOrHyphen(c) == IsDigitC(c) \/ c = "-"

HasKeyboardIndicators(text) ==
    \/ /\ Len(text) <= 3
       /\ Len(text) >= 1
       /\ IsUpperC(text[1])
       /\ AllChars(Tail(text), IsDigitOrHyphen)
    \/ (Len(text) \in 1..3 /\ AllChars(text, IsUpperC))
    \/ Includes(text, <<"k","e","y">>)
    \/ Includes(text, <<"b","t","n">>)
    \/ Includes(text, <<"b","u","t","t","o","n">>)

isKeyboardRelatedText(text) ==
    MatchesKeyboardPattern(text) \/ HasKeyboardIndicators(text)

(***************************************************************************)
(* src/server.js: junk filtering of extractGenericTitle.                   *)
(***************************************************************************)
FileExtensions ==
    { <<"j","p","g">>, <<"j","p","e","g">>, <<"p","n","g">>,
      <<"g","i","f">>, <<"w","e","b","p">>, <<"b","m","p">>,
      <<"p","d","f">>, <<"d","o","c">>, <<"t","x","t">> }

uiElements ==
    { <<"D","e","l","e","t","e">>, <<"B","a","c","k","s","p","a","c","e">>,
      <<"E","n","t","e","r">>, <<"T","a","b">>, <<"C","t","r","l">>,
      <<"A","l","t">>, <<"S","h","i","f","t">> }

\* the {25,} of /^[a-zA-Z0-9]{25,}$/
LongRandomLength == 25

\* /\.(jpg|jpeg|png|gif|webp|bmp|pdf|doc|txt)$/i
IsFilename(text) ==
    \E e \in FileExtensions : EndsWith(ToLowerCase(text), <<".">> \o e)

IsAlnumC(c) == IsLetterC(c) \/ IsDigitC(c)

\* /^[a-zA-Z0-9]{25,}$/
IsLongRandomString(text) ==
    Len(text) >= LongRandomLength /\ AllChars(text, IsAlnumC)

\* /[a-zA-Z]/
HasLetter(text) == \E k \in 1..Len(text) : IsLetterC(text[k])

\* the predicate of textBlocks.filter(...)
IsCleanBlock(block) ==
    LET text == Trim(block.description)
    IN  /\ ~IsFilename(text)
        /\ ~IsLongRandomString(text)
        /\ text \notin uiElements
        /\ HasLetter(text)
        /\ ~(Len(text) < 1)

(***************************************************************************)
(* src/server.js: geometry.  A block is                                    *)
(*   [description |-> text, boundingPoly |-> [present, vertices]]          *)
(* and a vertex is [x |-> Int, y |-> Int].                                 *)
(***************************************************************************)
Half == Num(1, 2)

\* block.boundingPoly?.vertices || []
VerticesOf(block) ==
    IF block.boundingPoly.present THEN block.boundingPoly.vertices ELSE <<>>

MinOver(S) ==
    IF S = {} THEN Num(1, 0)
    ELSE LET v == CHOOSE v \in S : \A w \in S : v <= w IN Int2Num(v)

MaxOver(S) ==
    IF S = {} THEN Num(-1, 0)
    ELSE LET v == CHOOSE v \in S : \A w \in S : v >= w IN Int2Num(v)

AllVertices(blocks) ==
    UNION { Range(VerticesOf(blocks[k])) : k \in 1..Len(blocks) }

calculateImageBounds(blocks) ==
    LET vs   == AllVertices(blocks)
        minX == MinOver({v.x : v \in vs})
        minY == MinOver({v.y : v \in vs})
        maxX == MaxOver({v.x : v \in vs})
        maxY == MaxOver({v.y : v \in vs})
    IN  [ width   |-> NumSub(maxX, minX),
          height  |-> NumSub(maxY, minY),
          centerX |-> NumDiv(NumAdd(maxX, minX), Int2Num(2)),
          centerY |-> NumDiv(NumAdd(maxY, minY), Int2Num(2)) ]

NullMetrics == [isNull |-> TRUE]

calculateBlockMetrics(vertices, imageBounds) ==
    IF Len(vertices) < 4 THEN NullMetrics
    ELSE
    LET left   == MinOver({vertices[k].x : k \in 1..Len(vertices)})
        right  == MaxOver({vertices[k].x : k \in 1..Len(vertices)})
        top    == MinOver({vertices[k].y : k \in 1..Len(vertices)})
        bottom == MaxOver({vertices[k].y : k \in 1..Len(vertices)})
        width  == NumSub(right, left)
        height == NumSub(bottom, top)
        centerX == NumDiv(NumAdd(left, right), Int2Num(2))
        centerY == NumDiv(NumAdd(top, bottom), Int2Num(2))
        relativeX == NumDiv(centerX, imageBounds.width)
        relativeY == NumDiv(centerY, imageBounds.height)
        aspectRatio == NumDiv(width, height)
        area == NumMul(width, height)
        relativeArea ==
            NumDiv(area, NumMul(imageBounds.width, imageBounds.height))
    IN  [ isNull |-> FALSE,
          bounds |-> [left |-> left, right |-> right,
                      top |-> top, bottom |-> bottom],
          center |-> [x |-> centerX, y |-> centerY],
          relative |-> [x |-> relativeX, y |-> relativeY],
          dimensions |-> [width |-> width, height |-> height],
          aspectRatio |-> aspectRatio,
          area |-> area,
          relativeArea |-> relativeArea ]

(***************************************************************************)
(* src/server.js: per-detection scoring.                                   *)
(***************************************************************************)
scorePosition(metrics) ==
    LET relativeY == metrics.relative.y
        vertical ==
            IF NumLt(relativeY, Num(33, 100)) THEN Int2Num(40)
            ELSE IF NumLt(relativeY, Half) THEN Int2Num(20)
            ELSE Int2Num(-10)
        centerOffset == NumAbs(NumSub(Half, metrics.relative.x))
    IN  NumAdd(vertical,
               NumMul(NumSub(Int2Num(1), centerOffset), Int2Num(30)))

scoreSizeAndRatio(metrics) ==
    LET optimalRelativeArea == Num(5, 100)
        areaDiff == NumAbs(NumSub(metrics.relativeArea, optimalRelativeArea))
        optimalRatio == Int2Num(3)
        ratioDiff == NumAbs(NumSub(metrics.aspectRatio, optimalRatio))
    IN  NumAdd(NumMul(NumSub(Int2Num(1), areaDiff), Int2Num(40)),
               NumMul(NumSub(Int2Num(1), NumMin(ratioDiff, Int2Num(1))),
                      Int2Num(30)))

RECURSIVE SumY(_)
SumY(vertices) ==
    IF vertices = <<>> THEN 0 ELSE Head(vertices).y + SumY(Tail(vertices))

\* vertices.reduce((sum, v) => sum + v.y, 0) / vertices.length
MeanY(vertices) == NumDiv(Int2Num(SumY(vertices)), Int2Num(Len(vertices)))

\* the pixel band of scoreProximity
ProximityBand == 20

\* `other.boundingPoly === vertices` compares the polygon object with the
\* vertex array and is never true, so no block is left out of the count.
scoreProximity(vertices, allBlocks) ==
    LET centerY == MeanY(vertices)
        nearbyBlocks ==
            { k \in 1..Len(allBlocks) :
                NumLt(NumAbs(NumSub(centerY,
                                    MeanY(allBlocks[k].boundingPoly.vertices))),
                      Int2Num(ProximityBand)) }
    IN  Int2Num(Cardinality(nearbyBlocks) * 10)

CountLetters(text) == Cardinality({k \in 1..Len(text) : IsLetterC(text[k])})

scoreTextCharacteristics(text) ==
    LET words == Len(SplitWhitespace(text))
        length == IF words >= 1 /\ words <= 4 THEN 25
                  ELSE IF words <= 6 THEN 10 ELSE 0
        letterRatio == NumDiv(Int2Num(CountLetters(text)), Int2Num(Len(text)))
    IN  NumAdd(Int2Num(length), NumMul(letterRatio, Int2Num(30)))

\* the body of blocks.map(block => ...) in identifyTitleBySpatialLogic
ScoreBlock(block, blocks, imageBounds) ==
    LET text == Trim(block.description)
        vertices == VerticesOf(block)
        metrics == calculateBlockMetrics(vertices, imageBounds)
        score ==
            NumAdd(NumAdd(NumAdd(scorePosition(metrics),
                                 scoreSizeAndRatio(metrics)),
                          scoreProximity(vertices, blocks)),
                   scoreTextCharacteristics(text))
    IN  [block |-> block, text |-> text, metrics |-> metrics, score |-> score]

\* The map throws a TypeError when scorePosition reads `relative` of the null
\* metrics of a block with fewer than 4 vertices, or when scoreProximity reads
\* `vertices` of a missing boundingPoly.
ScoringThrows(blocks) ==
    \E k \in 1..Len(blocks) :
        \/ Len(VerticesOf(blocks[k])) < 4
        \/ ~blocks[k].boundingPoly.present

(***************************************************************************)
(* src/server.js: line grouping.  A group is                               *)
(*   [blocks |-> scored blocks, text, score, metrics].                     *)
(***************************************************************************)
\* Array.prototype.sort with (a, b) => a.metrics.center.y - b.metrics.center.y:
\* a stable sort, here by insertion from the left.
RECURSIVE InsertByCenterY(_, _)
InsertByCenterY(sorted, x) ==
    IF sorted = <<>> THEN <<x>>
    ELSE LET last == sorted[Len(sorted)]
         IN  IF NumLt(x.metrics.center.y, last.metrics.center.y)
             THEN Append(InsertByCenterY(SubSeq(sorted, 1, Len(sorted) - 1), x),
                         last)
             ELSE Append(sorted, x)

RECURSIVE SortByCenterY(_)
SortByCenterY(blocks) ==
    IF blocks = <<>> THEN <<>>
    ELSE InsertByCenterY(SortByCenterY(SubSeq(blocks, 1, Len(blocks) - 1)),
                         blocks[Len(blocks)])

areBlocksAdjacent(metrics1, metrics2, imageBounds) ==
    LET verticalThreshold == NumMul(imageBounds.height, Num(2, 100))
        horizontalThreshold ==
            NumMul(NumMin(metrics1.dimensions.width, metrics2.dimensions.width),
                   Half)
        verticalGap == NumAbs(NumSub(metrics1.center.y, metrics2.center.y))
        horizontalGap == NumAbs(NumSub(metrics1.center.x, metrics2.center.x))
    IN  /\ NumLt(verticalGap, verticalThreshold)
        /\ NumLt(horizontalGap, horizontalThreshold)

\* the inner loop `for (const other of sortedBlocks)` from position o on
RECURSIVE CollectAdjacent(_, _, _, _, _, _)
CollectAdjacent(sortedBlocks, b, o, processed, group, imageBounds) ==
    IF o > Len(sortedBlocks) THEN [group |-> group, processed |-> processed]
    ELSE IF o = b \/ o \in processed
         THEN CollectAdjacent(sortedBlocks, b, o + 1, processed, group,
                              imageBounds)
    ELSE IF areBlocksAdjacent(sortedBlocks[b].metrics, sortedBlocks[o].metrics,
                              imageBounds)
         THEN CollectAdjacent(
                  sortedBlocks, b, o + 1, processed \cup {o},
                  [group EXCEPT
                     !.blocks = Append(@, sortedBlocks[o]),
                     !.text = @ \o <<" ">> \o sortedBlocks[o].text,
                     !.score = NumAdd(@, sortedBlocks[o].score)],
                  imageBounds)
    ELSE CollectAdjacent(sortedBlocks, b, o + 1, processed, group, imageBounds)

\* the outer loop `for (const block of sortedBlocks)` from position b on
RECURSIVE GroupFrom(_, _, _, _)
GroupFrom(sortedBlocks, b, processed, imageBounds) ==
    IF b > Len(sortedBlocks) THEN <<>>
    ELSE IF b \in processed
         THEN GroupFrom(sortedBlocks, b + 1, processed, imageBounds)
    ELSE LET block == sortedBlocks[b]
             start == [blocks |-> <<block>>, text |-> block.text,
                       score |-> block.score, metrics |-> block.metrics]
             got == CollectAdjacent(sortedBlocks, b, 1, processed, start,
                                    imageBounds)
         IN  <<got.group>>
             \o GroupFrom(sortedBlocks, b + 1, got.processed \cup {b},
                          imageBounds)

groupAdjacentBlocks(scoredBlocks, imageBounds) ==
    GroupFrom(SortByCenterY(scoredBlocks), 1, {}, imageBounds)

(***************************************************************************)
(* src/server.js: cross-group merge.                                       *)
(***************************************************************************)
\* the `50 // Maximum threshold` of shouldCombineGroups
MaxVerticalThreshold == 50

Articles == { <<"T","H","E">>, <<"A">>, <<"A","N">> }

\* text.toUpperCase() === text
IsUpperCaseText(text) == ToUpperCase(text) = text

shouldCombineGroups(group1, group2) ==
    LET verticalGap ==
            NumAbs(NumSub(group1.metrics.center.y, group2.metrics.center.y))
        horizontalAlignment ==
            NumAbs(NumSub(group1.metrics.center.x, group2.metrics.center.x))
        verticalThreshold ==
            NumMin(NumMin(NumMul(group1.metrics.dimensions.height, Int2Num(2)),
                          NumMul(group2.metrics.dimensions.height, Int2Num(2))),
                   Int2Num(MaxVerticalThreshold))
        horizontalThreshold ==
            NumMul(NumMax(group1.metrics.dimensions.width,
                          group2.metrics.dimensions.width),
                   Half)
        isCloseVertically == NumLt(verticalGap, verticalThreshold)
        isAlignedHorizontally == NumLt(horizontalAlignment, horizontalThreshold)
    IN  /\ isCloseVertically
        /\ isAlignedHorizontally
        /\ \/ /\ IsUpperCaseText(group1.text)
              /\ IsUpperCaseText(group2.text)
              /\ Len(group1.text) > 1
              /\ Len(group2.text) > 1
              /\ ~isKeyboardRelatedText(group1.text)
              /\ ~isKeyboardRelatedText(group2.text)
           \/ /\ EndsWith(group1.text, <<":">>)
              /\ ~isKeyboardRelatedText(group2.text)
           \/ /\ ToUpperCase(group1.text) \in Articles
              /\ IsUpperCaseText(group2.text)

\* a combined group that keeps the text of group1
CombineGroupsTextOfFirst(group1, group2) ==
    [ blocks |-> group1.blocks \o group2.blocks,
      text   |-> group1.text,
      score  |-> NumAdd(group1.score, group2.score),
      metrics |-> group1.metrics ]

\* the `combinedGroup` literal of combineRelatedTitleParts
\* a merge that adds the scores and keeps the first group's members only
CombineGroupsMembersOfFirst(group1, group2) ==
    [group1 EXCEPT !.score = NumAdd(group1.score, group2.score)]

CombineGroups(group1, group2) ==
    [ blocks |-> group1.blocks \o group2.blocks,
      text   |-> NormalizeColons(group1.text \o <<" ">> \o group2.text),
      score  |-> NumAdd(group1.score, group2.score),
      metrics |->
        [group1.metrics EXCEPT
           !.center =
              [x |-> NumDiv(NumAdd(group1.metrics.center.x,
                                   group2.metrics.center.x), Int2Num(2)),
               y |-> NumDiv(NumAdd(group1.metrics.center.y,
                                   group2.metrics.center.y), Int2Num(2))],
           !.dimensions =
              [width |->
                 NumMax(NumMax(NumSub(group2.metrics.bounds.right,
                                      group1.metrics.bounds.left),
                               group1.metrics.dimensions.width),
                        group2.metrics.dimensions.width),
               height |->
                 NumAbs(NumSub(group2.metrics.bounds.bottom,
                               group1.metrics.bounds.top))]] ]

\* combined[i] = combinedGroup without the splice
ReplaceWithoutSplice(combined, i, j, combinedGroup) ==
    [combined EXCEPT ![i] = combinedGroup]

\* combined[i] = combinedGroup; combined.splice(j, 1)   (1-based here)
ReplaceAndSplice(combined, i, j, combinedGroup) ==
    [k \in 1..(Len(combined) - 1) |->
        IF k = i THEN combinedGroup
        ELSE IF k < j THEN combined[k] ELSE combined[k + 1]]

\* combineRelatedTitleParts as a function: the do-while loop from the pair
\* (i, j) on, `changes` telling whether this pass has merged.
RECURSIVE CombineFrom(_, _, _, _)
CombineFrom(c, ii, jj, ch) ==
    IF ii > Len(c) THEN (IF ch THEN CombineFrom(c, 1, 2, FALSE) ELSE c)
    ELSE IF jj > Len(c) THEN CombineFrom(c, ii + 1, ii + 2, ch)
    ELSE IF shouldCombineGroups(c[ii], c[jj])
         THEN CombineFrom(ReplaceAndSplice(c, ii, jj,
                                           CombineGroups(c[ii], c[jj])),
                          ii, jj, TRUE)
    ELSE CombineFrom(c, ii, jj + 1, ch)

combineRelatedTitleParts(gs) == CombineFrom(gs, 1, 2, FALSE)

(***************************************************************************)
(* src/server.js: group scoring and selection.                             *)
(***************************************************************************)
\* /^(THE|A|AN)\s/i
HasArticle(text) ==
    \E a \in Articles :
        /\ Len(text) > Len(a)
        /\ ToUpperCase(SubSeq(text, 1, Len(a))) = a
        /\ IsSpaceC(text[Len(a) + 1])

IsTitleSeparator(c) == IsSpaceC(c) \/ c = ":" \/ c = "-"

\* /^[A-Z][a-zA-Z]+([\s:-][A-Z][a-zA-Z]+)*$/ : runs of two or more letters,
\* each starting with a capital, joined by single separators.
IsTitleFormat(text) ==
    /\ Len(text) >= 2
    /\ \A k \in 1..Len(text) :
          \/ /\ IsLetterC(text[k])
             /\ (k = 1 \/ IsTitleSeparator(text[k - 1])) =>
                   /\ IsUpperC(text[k])
                   /\ k < Len(text)
                   /\ IsLetterC(text[k + 1])
          \/ /\ IsTitleSeparator(text[k])
             /\ k > 1
             /\ k < Len(text)
             /\ IsLetterC(text[k - 1])
             /\ IsLetterC(text[k + 1])

RECURSIVE SumScores(_)
SumScores(blocks) ==
    IF blocks = <<>> THEN Int2Num(0)
    ELSE NumAdd(SumScores(SubSeq(blocks, 1, Len(blocks) - 1)),
                blocks[Len(blocks)].score)

\* the `metrics` literal of selectBestGroup
GroupFeatures(group) ==
    LET text == group.text
    IN  [ wordCount |-> Len(SplitWhitespace(text)),
          isUpperCase |-> IsUpperCaseText(text),
          hasArticle |-> HasArticle(text),
          verticalPosition |-> group.blocks[1].metrics.relative.y,
          horizontalCenter |->
              NumAbs(NumSub(Half, group.blocks[1].metrics.relative.x)),
          isKeyboardLike |-> isKeyboardRelatedText(text),
          isTitleFormat |-> IsTitleFormat(text) ]

Times(cond, factor, x) == IF cond THEN NumMul(x, factor) ELSE x

\* the body of combinedGroups.map(group => ...)
FinalScore(group) ==
    LET base == SumScores(group.blocks)
        m == GroupFeatures(group)
        s1 == IF NumLt(m.verticalPosition, Num(4, 10))
              THEN NumMul(base, Int2Num(4))
              ELSE IF NumLt(m.verticalPosition, Num(6, 10))
                   THEN NumMul(base, Num(25, 10))
                   ELSE base
        s2 == Times(NumLt(m.horizontalCenter, Num(15, 100)), Num(25, 10), s1)
        s3 == Times(m.isUpperCase, Num(18, 10), s2)
        s4 == Times(m.hasArticle, Num(14, 10), s3)
        s5 == Times(m.isTitleFormat, Num(22, 10), s4)
        s6 == IF m.wordCount = 2 THEN NumMul(s5, Int2Num(3))
              ELSE IF m.wordCount <= 4 THEN NumMul(s5, Int2Num(2))
              ELSE s5
    IN  IF m.isKeyboardLike THEN NumMul(base, Num(1, 100)) ELSE s6

ScoreGroup(group) ==
    [ blocks |-> group.blocks, text |-> group.text, score |-> group.score,
      finalScore |-> FinalScore(group) ]

\* Array.prototype.sort with (a, b) => b.finalScore - a.finalScore: a stable
\* sort; a NaN difference counts as 0.
RECURSIVE InsertByFinalScore(_, _)
InsertByFinalScore(sorted, x) ==
    IF sorted = <<>> THEN <<x>>
    ELSE LET last == sorted[Len(sorted)]
         IN  IF NumLt(last.finalScore, x.finalScore)
             THEN Append(
                      InsertByFinalScore(SubSeq(sorted, 1, Len(sorted) - 1), x),
                      last)
             ELSE Append(sorted, x)

RECURSIVE SortByFinalScore(_)
SortByFinalScore(gs) ==
    IF gs = <<>> THEN <<>>
    ELSE InsertByFinalScore(SortByFinalScore(SubSeq(gs, 1, Len(gs) - 1)),
                            gs[Len(gs)])

\* selectBestGroup after combineRelatedTitleParts: score, sort, take the first
RankGroups(combinedGroups) ==
    SortByFinalScore([k \in 1..Len(combinedGroups) |->
                         ScoreGroup(combinedGroups[k])])

(***************************************************************************)
(* src/server.js: cleanup.                                                 *)
(***************************************************************************)
KeepWord(word) ==
    Len(word) > 1 /\ HasLetter(word) /\ ~isKeyboardRelatedText(word)

\* [\w\s:'-]
IsTitleChar(c) == IsWordC(c) \/ IsSpaceC(c) \/ c \in {":", "'", "-"}

\* A title is [isNull |-> BOOLEAN, text |-> string].
NullTitle == [isNull |-> TRUE, text |-> <<>>]

applyGenericCleanup(titleCandidate) ==
    IF titleCandidate.isNull \/ titleCandidate.text = <<>> THEN NullTitle
    ELSE LET cleanedText ==
                 JoinSpace(SelectSeq(SplitWhitespace(titleCandidate.text),
                                     KeepWord))
         IN  IF cleanedText = <<>> THEN NullTitle
             ELSE [isNull |-> FALSE,
                   text |-> Trim(CollapseWhitespace(
                                SelectSeq(cleanedText, IsTitleChar)))]

(***************************************************************************)
(* src/server.js: extractGenericTitle as a function of its argument.       *)
(***************************************************************************)
selectBestGroup(gs) ==
    IF gs = <<>> THEN NullTitle
    ELSE [isNull |-> FALSE,
          text |-> RankGroups(combineRelatedTitleParts(gs))[1].text]

identifyTitleBySpatialLogic(blocks) ==
    LET bounds == calculateImageBounds(blocks)
        scored == [k \in 1..Len(blocks) |->
                      ScoreBlock(blocks[k], blocks, bounds)]
    IN  selectBestGroup(groupAdjacentBlocks(scored, bounds))

\* [kind |-> "null" | "title" | "threw", text |-> the title]
extractGenericTitle(blocks) ==
    LET clean == SelectSeq(blocks, IsCleanBlock)
    IN  IF clean = <<>> THEN [kind |-> "null", text |-> <<>>]
        ELSE IF ScoringThrows(clean) THEN [kind |-> "threw", text |-> <<>>]
        ELSE LET title == applyGenericCleanup(identifyTitleBySpatialLogic(clean))
             IN  IF title.isNull THEN [kind |-> "null", text |-> <<>>]
                 ELSE [kind |-> "title", text |-> title.text]

(***************************************************************************)
(* TMDbService.calculateSimilarity: the edit-distance matrix, row i over   *)
(* str2 and column j over str1.  Row i is held as the sequence of its      *)
(* columns 0..str1.length, column j at index j + 1.                        *)
(***************************************************************************)
Min3(a, b, c) ==
    IF a <= b /\ a <= c THEN a ELSE IF b <= c THEN b ELSE c

\* a cell whose substitution costs 2
EditCellSubstitutionTwo(diagonal, left, up, same) ==
    IF same THEN diagonal ELSE Min3(diagonal + 2, left + 1, up + 1)

\* a cell that pays for an edit where the two characters are equal as well
EditCellAlwaysEdits(diagonal, left, up, same) ==
    Min3(diagonal + 1, left + 1, up + 1)

\* matrix[i][j] from matrix[i-1][j-1], matrix[i][j-1] and matrix[i-1][j]
EditCell(diagonal, left, up, same) ==
    IF same THEN diagonal ELSE Min3(diagonal + 1, left + 1, up + 1)

\* the inner loop: row i, begun as [i], filled against the character c2
RECURSIVE FillRow(_, _, _, _)
FillRow(previous, row, s1, c2) ==
    IF Len(row) = Len(s1) + 1 THEN row
    ELSE LET col == Len(row)
         IN  FillRow(previous,
                     Append(row, EditCell(previous[col], row[col],
                                          previous[col + 1], c2 = s1[col])),
                     s1, c2)

\* the outer loop
RECURSIVE FillMatrix(_, _, _)
FillMatrix(matrix, s1, s2) ==
    IF Len(matrix) = Len(s2) + 1 THEN matrix
    ELSE LET row == Len(matrix)
         IN  FillMatrix(Append(matrix,
                               FillRow(matrix[row], <<row>>, s1, s2[row])),
                        s1, s2)

calculateSimilarity(s1, s2) ==
    LET firstRow == [k \in 1..(Len(s1) + 1) |-> k - 1]
        matrix == FillMatrix(<<firstRow>>, s1, s2)
        maxLength == IF Len(s1) >= Len(s2) THEN Len(s1) ELSE Len(s2)
    IN  IF maxLength = 0 THEN Int2Num(1)
        ELSE Num(maxLength - matrix[Len(s2) + 1][Len(s1) + 1], maxLength)

(***************************************************************************)
(* TMDbService.findBestMatch.  A field of a record is                      *)
(* [defined |-> BOOLEAN, value |-> ...]; a field that is not defined reads *)
(* as undefined.                                                           *)
(***************************************************************************)
UndefinedNumber == [defined |-> FALSE, value |-> NaN]

UndefinedString == [defined |-> FALSE, value |-> <<>>]

Defined(v) == [defined |-> TRUE, value |-> v]

\* undefined / k is NaN
ToNumber(field) == IF field.defined THEN field.value ELSE NaN

TotalScore(movie, title) ==
    LET titleScore ==
            calculateSimilarity(ToLowerCase(title), ToLowerCase(movie.title))
        originalTitleScore ==
            IF movie.original_title.defined
               /\ movie.original_title.value # <<>>
            THEN calculateSimilarity(ToLowerCase(title),
                                     ToLowerCase(movie.original_title.value))
            ELSE Int2Num(0)
        popularityScore ==
            NumMin(NumDiv(ToNumber(movie.popularity), Int2Num(100)),
                   Int2Num(1))
        voteScore ==
            NumMin(NumDiv(ToNumber(movie.vote_count), Int2Num(1000)),
                   Int2Num(1))
    IN  NumAdd(NumAdd(NumMul(NumMax(titleScore, originalTitleScore),
                             Num(7, 10)),
                      NumMul(popularityScore, Num(2, 10))),
               NumMul(voteScore, Num(1, 10)))

\* results.map(movie => ({...movie, score: totalScore}))
ScoreResults(list, title) ==
    [k \in 1..Len(list) |->
        [movie |-> list[k], score |-> TotalScore(list[k], title)]]

\* x goes before the first element that (a, b) => b.score - a.score puts
\* after it
RECURSIVE InsertByScore(_, _)
InsertByScore(sorted, x) ==
    IF sorted = <<>> THEN <<x>>
    ELSE IF NumLt(Int2Num(0), NumSub(x.score, Head(sorted).score))
         THEN <<x>> \o sorted
         ELSE <<Head(sorted)>> \o InsertByScore(Tail(sorted), x)

RECURSIVE StableSortByScore(_)
StableSortByScore(list) ==
    IF list = <<>> THEN <<>>
    ELSE InsertByScore(StableSortByScore(SubSeq(list, 1, Len(list) - 1)),
                       list[Len(list)])

\* Array.prototype.sort is stable when the comparator orders the elements.  A
\* NaN score makes b.score - a.score NaN, the comparator is then not
\* consistent, and the order of the result is left to the implementation.
SortOutcomes(list) ==
    IF \E k \in 1..Len(list) : IsNaN(list[k].score)
    THEN LET n == Len(list)
         IN  { [k \in 1..n |-> list[p[k]]] :
                 p \in { f \in [1..n -> 1..n] :
                           \A a, b \in 1..n : f[a] = f[b] => a = b } }
    ELSE {StableSortByScore(list)}

NullMatch == [isNull |-> TRUE, movie |-> <<>>, score |-> NaN]

\* findBestMatch that also gives up on a list of one
findBestMatchOfSeveral(sorted, list) ==
    IF Len(list) <= 1 THEN NullMatch
    ELSE [isNull |-> FALSE, movie |-> sorted[1].movie, score |-> sorted[1].score]

\* what findBestMatch returns, given the sorted list
findBestMatch(sorted, list) ==
    IF Len(list) = 0 THEN NullMatch
    ELSE [isNull |-> FALSE, movie |-> sorted[1].movie, score |-> sorted[1].score]

(***************************************************************************)
(* The detections the model draws its inputs from.                         *)
(***************************************************************************)
Rect(l, t, r, b) ==
    << [x |-> l, y |-> t], [x |-> r, y |-> t],
       [x |-> r, y |-> b], [x |-> l, y |-> b] >>

Detection(text, vertices) ==
    [description |-> text,
     boundingPoly |-> [present |-> TRUE, vertices |-> vertices]]

\* a detection without boundingPoly
NoPolyDetection(text) ==
    [description |-> text,
     boundingPoly |-> [present |-> FALSE, vertices |-> <<>>]]

TxtUntil == <<"U","N","T","I","L">>

TxtDawn == <<"D","A","W","N">>

TxtThe == <<"T","H","E">>

TxtMatrix == <<"M","A","T","R","I","X">>

TxtF5 == <<"F","5">>

TxtFilename == <<"p","o","s","t","e","r",".","j","p","g">>

TxtCapsLock == <<"C","a","p","s"," ","L","o","c","k">>

TxtEnter == <<"E","n","t","e","r">>

TxtDigits == <<"1","2","3">>

TxtDuneColon == <<"D","U","N","E",":">>

TxtDusk == <<"D","U","S","K">>

\* 22 letters: at least 20, fewer than 25
TxtLong22 ==
    <<"a","b","c","d","e","f","g","h","i","j","k",
      "l","m","n","o","p","q","r","s","t","u","v">>

\* upper left, large
QuadUpper == Rect(0, 0, 40, 20)

\* just below QuadUpper, aligned with it
QuadBelow == Rect(0, 20, 40, 40)

\* narrow, right of the centre line
QuadNarrow == Rect(50, 20, 60, 40)

\* wide, third line
QuadWide == Rect(0, 40, 100, 60)

\* small, bottom corner
QuadCorner == Rect(90, 90, 100, 100)

\* all four corners on one point
QuadPoint == Rect(50, 50, 50, 50)

\* zero height
QuadLine == Rect(0, 50, 100, 50)

\* the mirror image of QuadUpper in an image 100 wide
QuadUpperRight == Rect(60, 0, 100, 20)

PosterFamily ==
    { Detection(TxtUntil, QuadUpper), Detection(TxtDawn, QuadBelow),
      Detection(TxtThe, QuadNarrow), Detection(TxtMatrix, QuadWide),
      Detection(TxtF5, QuadCorner) }

JunkFamily ==
    { Detection(TxtUntil, QuadUpper), Detection(TxtFilename, QuadCorner),
      Detection(TxtLong22, QuadWide), Detection(TxtCapsLock, QuadCorner),
      Detection(TxtEnter, QuadCorner), Detection(TxtDigits, QuadBelow) }

MalformedFamily ==
    { Detection(TxtUntil, QuadUpper),
      Detection(TxtDawn, SubSeq(QuadBelow, 1, 3)),
      NoPolyDetection(TxtMatrix) }

DegenerateFamily ==
    { Detection(TxtDawn, QuadPoint), Detection(TxtMatrix, QuadLine) }

\* a title that ends with a colon, above and below other text
ColonFamily ==
    { Detection(TxtDuneColon, QuadUpper), Detection(TxtDawn, QuadBelow),
      Detection(TxtThe, QuadBelow), Detection(TxtThe, QuadNarrow),
      Detection(TxtDuneColon, QuadWide) }

\* two words side by side that score the same, above a third
TieFamily ==
    { Detection(TxtDawn, QuadUpper), Detection(TxtDusk, QuadUpperRight),
      Detection(TxtMatrix, QuadWide) }

Families ==
    { PosterFamily, JunkFamily, MalformedFamily, DegenerateFamily, ColonFamily,
      TieFamily }

SeqsUpTo(S, n) == UNION { [1..m -> S] : m \in 0..n }

Inputs == UNION { SeqsUpTo(F, MaxBlocks) : F \in Families }

\* SpecRepeat: the first call, and the call that may come in between
RepeatInputs == UNION { SeqsUpTo(F, MaxRepeatBlocks) : F \in Families }

OtherInputs ==
    { << Detection(TxtUntil, QuadUpper), Detection(TxtDawn, QuadBelow) >> }

\* SpecSimilarity: strings over two characters
Strings == SeqsUpTo({"a", "b"}, MaxStringLength)

\* SpecCleanup: title candidates, null among them
TitleCandidates ==
    {NullTitle} \cup
    { [isNull |-> FALSE, text |-> t] :
        t \in SeqsUpTo({"A", "b", "_", " ", "!", ":"}, MaxTitleLength) }

\* SpecRank: the records and the search titles
Movie(id, title, original, popularity, votes) ==
    [id |-> id, title |-> title, original_title |-> original,
     popularity |-> popularity, vote_count |-> votes]

MovieAb ==
    Movie(1, <<"A","b">>, UndefinedString,
          Defined(Int2Num(50)), Defined(Int2Num(500)))

\* another record with the score of MovieAb
MovieAbAgain ==
    Movie(2, <<"A","b">>, UndefinedString,
          Defined(Int2Num(50)), Defined(Int2Num(500)))

MovieBa ==
    Movie(3, <<"b","a">>, Defined(<<"A","B">>),
          Defined(Int2Num(200)), Defined(Int2Num(2000)))

\* a record without popularity and vote_count
MovieBare ==
    Movie(4, <<"a","b">>, UndefinedString, UndefinedNumber, UndefinedNumber)

MovieAbc ==
    Movie(5, <<"a","b","c">>, Defined(<<>>),
          Defined(Int2Num(10)), Defined(Int2Num(5)))

Movies == {MovieAb, MovieAbAgain, MovieBa, MovieBare, MovieAbc}

SearchTitles == { <<"a","b">>, <<"B","a">> }

(***************************************************************************)
(* State.                                                                  *)
(***************************************************************************)
VARIABLES
    textBlocks,      \* the argument of extractGenericTitle
    pc,              \* where the call stands
    cleanBlocks,     \* extractGenericTitle: cleanBlocks
    scoredBlocks,    \* identifyTitleBySpatialLogic: scoredBlocks
    groups,          \* identifyTitleBySpatialLogic: groups
    combined,        \* combineRelatedTitleParts: combined
    i, j, changes,   \* combineRelatedTitleParts: the loop variables
    mergePasses,     \* passes of the do-while loop that merged something
    titleCandidate,  \* extractGenericTitle: titleCandidate
    result,          \* what extractGenericTitle returned, or that it threw
    called,          \* the functions entered by this call
    calls,           \* the calls of extractGenericTitle made so far
    history,         \* <<argument, result>> of the calls that have returned
    str1, str2,      \* the arguments of calculateSimilarity
    similarity,      \* what calculateSimilarity returned
    results,         \* findBestMatch: results
    searchTitle,     \* findBestMatch: searchTitle
    scoredResults,   \* findBestMatch: scoredResults, sorted
    bestMatch,       \* what findBestMatch returned
    ranker,          \* where the calls of TMDbService stand
    isARStarted,     \* FreeARMovieScanner: isARStarted
    isScanning,      \* FreeARMovieScanner: isScanning
    isOCRReady,      \* FreeARMovieScanner: isOCRReady
    movieMarkers,    \* FreeARMovieScanner: movieMarkers, as a set of entries
    markerIdCounter, \* FreeARMovieScanner: markerIdCounter
    arStatus,        \* the text of the ar-status element
    initPc,          \* where FreeARMovieScanner.init stands
    tasks,           \* the calls of scanAtPosition and extractText made
    taps,            \* the screen taps so far
    statusTimers,    \* the pending 3 s timers of scanAtPosition
    isInitialized,   \* VisionService: isInitialized
    retryCount,      \* VisionService: retryCount
    rateLimiter,     \* TMDbService: rateLimiter
    now,             \* Date.now(), in ms
    limited,         \* the getMovieDetails calls suspended in checkRateLimit
    windows          \* per reset of the window, the callers let pass in it

titleVars ==
    << textBlocks, pc, cleanBlocks, scoredBlocks, groups, combined, i, j,
       changes, mergePasses, titleCandidate, result, called, calls, history >>

rankerVars ==
    << str1, str2, similarity, results, searchTitle, scoredResults, bestMatch,
       ranker >>

scannerVars ==
    << isARStarted, isScanning, isOCRReady, movieMarkers, markerIdCounter,
       arStatus, initPc, tasks, taps, statusTimers >>

visionVars == << isInitialized, retryCount >>

limiterVars == << rateLimiter, now, limited, windows >>

appVars == << scannerVars, visionVars, limiterVars >>

vars == << titleVars, rankerVars, appVars >>

Pending == [kind |-> "pending", text |-> <<>>]

Returned(title) ==
    IF title.isNull THEN [kind |-> "null", text |-> <<>>]
    ELSE [kind |-> "title", text |-> title.text]

Threw == [kind |-> "threw", text |-> <<>>]

imageBounds == calculateImageBounds(cleanBlocks)

\* a call of extractGenericTitle with fresh locals
Enter(blocks) ==
    /\ textBlocks = blocks
    /\ pc = "filter"
    /\ cleanBlocks = <<>>
    /\ scoredBlocks = <<>>
    /\ groups = <<>>
    /\ combined = <<>>
    /\ i = 1
    /\ j = 2
    /\ changes = FALSE
    /\ mergePasses = 0
    /\ titleCandidate = NullTitle
    /\ result = Pending
    /\ called = {"extractGenericTitle"}

\* no call of extractGenericTitle
TitleIdle ==
    /\ textBlocks = <<>>
    /\ pc = "idle"
    /\ cleanBlocks = <<>>
    /\ scoredBlocks = <<>>
    /\ groups = <<>>
    /\ combined = <<>>
    /\ i = 1
    /\ j = 2
    /\ changes = FALSE
    /\ mergePasses = 0
    /\ titleCandidate = NullTitle
    /\ result = Pending
    /\ called = {}
    /\ calls = 0
    /\ history = {}

\* no call of TMDbService
RankerIdle ==
    /\ str1 = <<>>
    /\ str2 = <<>>
    /\ similarity = NaN
    /\ results = <<>>
    /\ searchTitle = <<>>
    /\ scoredResults = <<>>
    /\ bestMatch = NullMatch
    /\ ranker = "idle"

\* VisionService.js: `this.maxRetries = 3`
maxRetries == 3

\* TMDbService.js: `maxRequestsPer10Sec: 40`
maxRequestsPer10Sec == 40

\* TMDbService.js: the `10000` of `Date.now() + 10000`, in ms
WindowMillis == 10000

\* the page after `new FreeARMovieScanner()`: the fields the constructors set,
\* init() suspended in `await this.visionService.init()`, the clock at 0
Constructed ==
    /\ isARStarted = FALSE
    /\ isScanning = FALSE
    /\ isOCRReady = FALSE
    /\ movieMarkers = {}
    /\ markerIdCounter = 0
    /\ arStatus = "Initializing Vision API..."
    /\ initPc = "init"
    /\ tasks = <<>>
    /\ taps = 0
    /\ statusTimers = 0
    /\ isInitialized = FALSE
    /\ retryCount = 0
    /\ now = 0
    /\ rateLimiter = [requests |-> 0, resetTime |-> WindowMillis]
    /\ limited = {}
    /\ windows = [w \in {0} |-> 0]

Init ==
    /\ Constructed
    /\ \E blocks \in Inputs : Enter(blocks)
    /\ calls = 1
    /\ history = {}
    /\ RankerIdle

(***************************************************************************)
(* extractGenericTitle, step 1: the junk filter and the early return.      *)
(***************************************************************************)
\* Filter without the early return of an empty cleanBlocks
FilterNoEarlyReturn ==
    /\ pc = "filter"
    /\ UNCHANGED << calls, history, rankerVars, appVars >>
    /\ cleanBlocks' = SelectSeq(textBlocks, IsCleanBlock)
    /\ result' = result
    /\ pc' = "score"
    /\ UNCHANGED << textBlocks, scoredBlocks, groups, combined, i, j, changes,
                    mergePasses, titleCandidate, called >>

Filter ==
    /\ pc = "filter"
    /\ UNCHANGED << calls, history, rankerVars, appVars >>
    /\ cleanBlocks' = SelectSeq(textBlocks, IsCleanBlock)
    /\ IF cleanBlocks' = <<>>
       THEN /\ result' = Returned(NullTitle)
            /\ pc' = "done"
       ELSE /\ result' = result
            /\ pc' = "score"
    /\ UNCHANGED << textBlocks, scoredBlocks, groups, combined, i, j, changes,
                    mergePasses, titleCandidate, called >>

(***************************************************************************)
(* identifyTitleBySpatialLogic: bounds and the scoring map.  A TypeError   *)
(* leaves extractGenericTitle, which has no handler.                       *)
(***************************************************************************)
Score ==
    /\ pc = "score"
    /\ UNCHANGED << calls, history, rankerVars, appVars >>
    /\ called' = called \cup {"identifyTitleBySpatialLogic"}
    /\ IF ScoringThrows(cleanBlocks)
       THEN /\ result' = Threw
            /\ pc' = "done"
            /\ scoredBlocks' = scoredBlocks
       ELSE /\ scoredBlocks' =
                  [k \in 1..Len(cleanBlocks) |->
                      ScoreBlock(cleanBlocks[k], cleanBlocks, imageBounds)]
            /\ result' = result
            /\ pc' = "group"
    /\ UNCHANGED << textBlocks, cleanBlocks, groups, combined, i, j, changes,
                    mergePasses, titleCandidate >>

Group ==
    /\ pc = "group"
    /\ UNCHANGED << calls, history, rankerVars, appVars >>
    /\ called' = called \cup {"groupAdjacentBlocks"}
    /\ groups' = groupAdjacentBlocks(scoredBlocks, imageBounds)
    /\ pc' = "select"
    /\ UNCHANGED << textBlocks, cleanBlocks, scoredBlocks, combined, i, j,
                    changes, mergePasses, titleCandidate, result >>

(***************************************************************************)
(* selectBestGroup: the empty check, then combineRelatedTitleParts up to   *)
(* the first pair of its first pass.                                       *)
(***************************************************************************)
SelectBegin ==
    /\ pc = "select"
    /\ UNCHANGED << calls, history, rankerVars, appVars >>
    /\ IF groups = <<>>
       THEN /\ called' = called \cup {"selectBestGroup"}
            /\ titleCandidate' = NullTitle
            /\ pc' = "cleanup"
            /\ UNCHANGED << combined, i, j, changes >>
       ELSE /\ called' =
                  called \cup {"selectBestGroup", "combineRelatedTitleParts"}
            /\ combined' = groups
            /\ changes' = FALSE
            /\ i' = 1
            /\ j' = 2
            /\ pc' = "merge"
            /\ titleCandidate' = titleCandidate
    /\ UNCHANGED << textBlocks, cleanBlocks, scoredBlocks, groups,
                    mergePasses, result >>

\* one run of the inner loop body, for the pair (i, j)
MergePair ==
    /\ pc = "merge"
    /\ UNCHANGED << calls, history, rankerVars, appVars >>
    /\ i <= Len(combined)
    /\ j <= Len(combined)
    /\ IF shouldCombineGroups(combined[i], combined[j])
       THEN /\ combined' =
                  ReplaceAndSplice(combined, i, j,
                                   CombineGroups(combined[i], combined[j]))
            /\ changes' = TRUE
            /\ j' = j
       ELSE /\ j' = j + 1
            /\ UNCHANGED << combined, changes >>
    /\ UNCHANGED << textBlocks, pc, cleanBlocks, scoredBlocks, groups, i,
                    mergePasses, titleCandidate, result, called >>

\* the inner loop is over: i++
MergeNextRow ==
    /\ pc = "merge"
    /\ UNCHANGED << calls, history, rankerVars, appVars >>
    /\ i <= Len(combined)
    /\ j > Len(combined)
    /\ i' = i + 1
    /\ j' = i + 2
    /\ UNCHANGED << textBlocks, pc, cleanBlocks, scoredBlocks, groups,
                    combined, changes, mergePasses, titleCandidate, result,
                    called >>

\* MergePassEnd with `changes = false` missing at the top of the loop body
MergePassEndKeepsChanges ==
    /\ pc = "merge"
    /\ UNCHANGED << calls, history, rankerVars, appVars >>
    /\ i > Len(combined)
    /\ IF changes
       THEN /\ mergePasses' = mergePasses + 1
            /\ i' = 1
            /\ j' = 2
            /\ UNCHANGED << pc, changes >>
       ELSE /\ pc' = "rank"
            /\ UNCHANGED << mergePasses, changes, i, j >>
    /\ UNCHANGED << textBlocks, cleanBlocks, scoredBlocks, groups, combined,
                    titleCandidate, result, called >>

\* MergePassEnd of a loop that makes one pass only
MergePassEndAfterOnePass ==
    /\ pc = "merge"
    /\ UNCHANGED << calls, history, rankerVars, appVars >>
    /\ i > Len(combined)
    /\ pc' = "rank"
    /\ mergePasses' = mergePasses + (IF changes THEN 1 ELSE 0)
    /\ UNCHANGED << changes, i, j >>
    /\ UNCHANGED << textBlocks, cleanBlocks, scoredBlocks, groups, combined,
                    titleCandidate, result, called >>

\* the outer loop is over: while (changes)
MergePassEnd ==
    /\ pc = "merge"
    /\ UNCHANGED << calls, history, rankerVars, appVars >>
    /\ i > Len(combined)
    /\ IF changes
       THEN /\ mergePasses' = mergePasses + 1
            /\ changes' = FALSE
            /\ i' = 1
            /\ j' = 2
            /\ pc' = pc
       ELSE /\ pc' = "rank"
            /\ UNCHANGED << mergePasses, changes, i, j >>
    /\ UNCHANGED << textBlocks, cleanBlocks, scoredBlocks, groups, combined,
                    titleCandidate, result, called >>

\* the rest of selectBestGroup, and `bestGroup ? bestGroup.text : null`
Rank ==
    /\ pc = "rank"
    /\ UNCHANGED << calls, history, rankerVars, appVars >>
    /\ titleCandidate' = [isNull |-> FALSE, text |-> RankGroups(combined)[1].text]
    /\ pc' = "cleanup"
    /\ UNCHANGED << textBlocks, cleanBlocks, scoredBlocks, groups, combined,
                    i, j, changes, mergePasses, result, called >>

Cleanup ==
    /\ pc = "cleanup"
    /\ UNCHANGED << calls, history, rankerVars, appVars >>
    /\ called' = called \cup {"applyGenericCleanup"}
    /\ result' = Returned(applyGenericCleanup(titleCandidate))
    /\ pc' = "done"
    /\ UNCHANGED << textBlocks, cleanBlocks, scoredBlocks, groups, combined,
                    i, j, changes, mergePasses, titleCandidate >>

Next ==
    \/ Filter
    \/ Score
    \/ Group
    \/ SelectBegin
    \/ MergePair
    \/ MergeNextRow
    \/ MergePassEnd
    \/ Rank
    \/ Cleanup

Spec == Init /\ [][Next]_vars

(***************************************************************************)
(* SpecRepeat: extractGenericTitle called again and again.  The function   *)
(* reads its argument and writes locals only (src/server.js 215-274), so a *)
(* call starts from fresh locals.                                          *)
(***************************************************************************)
InitRepeat ==
    /\ Constructed
    /\ \E blocks \in RepeatInputs : Enter(blocks)
    /\ calls = 1
    /\ history = {}
    /\ RankerIdle

\* the arguments a further call may have: one of an earlier call, or another
NextArguments == {textBlocks} \cup {h[1] : h \in history} \cup OtherInputs

\* a further call that keeps the cleanBlocks of the call before, when it had any
CallAgainReusesCleanBlocks ==
    /\ pc = "done"
    /\ calls < MaxCalls
    /\ \E blocks \in NextArguments : textBlocks' = blocks
    /\ pc' = IF cleanBlocks = <<>> THEN "filter" ELSE "score"
    /\ cleanBlocks' = cleanBlocks
    /\ scoredBlocks' = <<>>
    /\ groups' = <<>>
    /\ combined' = <<>>
    /\ i' = 1
    /\ j' = 2
    /\ changes' = FALSE
    /\ mergePasses' = 0
    /\ titleCandidate' = NullTitle
    /\ result' = Pending
    /\ called' = {"extractGenericTitle"}
    /\ calls' = calls + 1
    /\ history' = history \cup {<<textBlocks, result>>}
    /\ UNCHANGED << rankerVars, appVars >>

CallAgain ==
    /\ pc = "done"
    /\ calls < MaxCalls
    /\ \E blocks \in NextArguments : textBlocks' = blocks
    /\ pc' = "filter"
    /\ cleanBlocks' = <<>>
    /\ scoredBlocks' = <<>>
    /\ groups' = <<>>
    /\ combined' = <<>>
    /\ i' = 1
    /\ j' = 2
    /\ changes' = FALSE
    /\ mergePasses' = 0
    /\ titleCandidate' = NullTitle
    /\ result' = Pending
    /\ called' = {"extractGenericTitle"}
    /\ calls' = calls + 1
    /\ history' = history \cup {<<textBlocks, result>>}
    /\ UNCHANGED << rankerVars, appVars >>

NextRepeat ==
    \/ Next
    \/ CallAgain

SpecRepeat == InitRepeat /\ [][NextRepeat]_vars

(***************************************************************************)
(* SpecSimilarity: one call of calculateSimilarity.                        *)
(***************************************************************************)
InitSimilarity ==
    /\ Constructed
    /\ TitleIdle
    /\ str1 \in Strings
    /\ str2 \in Strings
    /\ similarity = NaN
    /\ results = <<>>
    /\ searchTitle = <<>>
    /\ scoredResults = <<>>
    /\ bestMatch = NullMatch
    /\ ranker = "similarity"

CalculateSimilarity ==
    /\ ranker = "similarity"
    /\ similarity' = calculateSimilarity(str1, str2)
    /\ ranker' = "similarityDone"
    /\ UNCHANGED << titleVars, appVars, str1, str2, results, searchTitle,
                    scoredResults, bestMatch >>

SpecSimilarity == InitSimilarity /\ [][CalculateSimilarity]_vars

(***************************************************************************)
(* SpecRank: one call of findBestMatch.                                    *)
(***************************************************************************)
InitRank ==
    /\ Constructed
    /\ TitleIdle
    /\ str1 = <<>>
    /\ str2 = <<>>
    /\ similarity = NaN
    /\ results \in SeqsUpTo(Movies, MaxRecords)
    /\ searchTitle \in SearchTitles
    /\ scoredResults = <<>>
    /\ bestMatch = NullMatch
    /\ ranker = "match"

FindBestMatch ==
    /\ ranker = "match"
    /\ \E sorted \in SortOutcomes(ScoreResults(results, searchTitle)) :
          /\ scoredResults' = sorted
          /\ bestMatch' = findBestMatch(sorted, results)
    /\ ranker' = "matchDone"
    /\ UNCHANGED << titleVars, appVars, str1, str2, similarity, results, searchTitle >>

SpecRank == InitRank /\ [][FindBestMatch]_vars

(***************************************************************************)
(* SpecCleanup: one call of applyGenericCleanup, as extractGenericTitle    *)
(* makes it (src/server.js 270-273).                                       *)
(***************************************************************************)
InitCleanup ==
    /\ Constructed
    /\ textBlocks = <<>>
    /\ pc = "cleanup"
    /\ cleanBlocks = <<>>
    /\ scoredBlocks = <<>>
    /\ groups = <<>>
    /\ combined = <<>>
    /\ i = 1
    /\ j = 2
    /\ changes = FALSE
    /\ mergePasses = 0
    /\ titleCandidate \in TitleCandidates
    /\ result = Pending
    /\ called = {}
    /\ calls = 1
    /\ history = {}
    /\ RankerIdle

SpecCleanup == InitCleanup /\ [][Cleanup]_vars

(***************************************************************************)
(* The step-wise call and the function agree.                              *)
(***************************************************************************)
StepsAgreeWithFunction ==
    /\ pc = "rank" => combined = combineRelatedTitleParts(groups)
    /\ pc = "done" => result = extractGenericTitle(textBlocks)

(***************************************************************************)
(* C1.  The cross-group merge loop terminates: every step of it lowers a   *)
(* measure that is bounded below.  For n >= 1 initial groups at most n-1   *)
(* passes merge something, and the loop is left after the first pass that  *)
(* merges nothing.                                                         *)
(***************************************************************************)
\* What is left of the loop, as a pair of naturals ordered lexicographically:
\* twice the number of groups, plus one while the running pass has merged, and
\* the pairs and rows the running pass has yet to visit.
LoopMeasure ==
    LET n == Len(combined)
    IN  << 2 * n + (IF changes THEN 1 ELSE 0),
           (n + 2) * (n + 3) - (i * (n + 3) + j) >>

LexLess(a, b) == a[1] < b[1] \/ (a[1] = b[1] /\ a[2] < b[2])

C1_MergeTerminates ==
    /\ [](groups # <<>> => mergePasses <= Len(groups) - 1)
    /\ [](pc = "merge" => LoopMeasure[1] >= 0 /\ LoopMeasure[2] >= 0)
    /\ [][(pc = "merge" /\ pc' = "merge") =>
             LexLess(LoopMeasure', LoopMeasure)]_vars
    /\ [][(pc = "merge" /\ pc' # "merge") => (~changes /\ pc' = "rank")]_vars
    /\ [][(pc = "merge" /\ i > Len(combined) /\ ~changes) => pc' = "rank"]_vars

\* three groups, merged into one in two passes: the bound n-1 is met
C1_Witness ==
    pc = "rank" /\ Len(groups) = 3 /\ mergePasses = 2 /\ Len(combined) = 1

(***************************************************************************)
(* C2.  The returned title holds no text of a detection whose text is a    *)
(* file name, a run of 20 or more letters and digits, or keyboard / UI     *)
(* text.                                                                   *)
(***************************************************************************)
IsJunkText(text) ==
    \/ IsFilename(text)
    \/ (Len(text) >= 20 /\ AllChars(text, IsAlnumC))
    \/ isKeyboardRelatedText(text)

WordsOf(text) == {w \in Range(SplitWhitespace(text)) : w # <<>>}

C2_NoJunkInTitle ==
    (pc = "done" /\ result.kind = "title") =>
        \A k \in 1..Len(textBlocks) :
            IsJunkText(Trim(textBlocks[k].description)) =>
                WordsOf(Trim(textBlocks[k].description))
                    \cap WordsOf(result.text) = {}

(***************************************************************************)
(* C3.  With an empty detection list, or when the filter removes every     *)
(* detection, the call returns null without throwing and enters no         *)
(* scoring, grouping or cleanup function.                                  *)
(***************************************************************************)
C3_NothingLeftReturnsNull ==
    SelectSeq(textBlocks, IsCleanBlock) = <<>> =>
        /\ pc \in {"filter", "done"}
        /\ called = {"extractGenericTitle"}
        /\ scoredBlocks = <<>> /\ groups = <<>> /\ combined = <<>>
        /\ pc = "done" => result.kind = "null"

\* a non-empty list that the filter empties
C3_Witness ==
    /\ pc = "done"
    /\ Len(textBlocks) >= 2
    /\ cleanBlocks = <<>>
    /\ result.kind = "null"

(***************************************************************************)
(* C4.  A detection that passes the filter with fewer than 4 vertices is   *)
(* skipped: the call does not throw and returns what it returns for the    *)
(* list without that detection.                                            *)
(***************************************************************************)
IsMalformed(block) == IsCleanBlock(block) /\ Len(VerticesOf(block)) < 4

WellFormed(block) == ~IsMalformed(block)

C4_MalformedSkipped ==
    (pc = "done" /\ \E k \in 1..Len(textBlocks) : IsMalformed(textBlocks[k])) =>
        /\ result.kind # "threw"
        /\ result = extractGenericTitle(SelectSeq(textBlocks, WellFormed))

(***************************************************************************)
(* C5.  When the union of the detections has zero width or zero height,    *)
(* every relative position is 0.5 and no score is infinite or NaN.         *)
(***************************************************************************)
C5_DegenerateBoundsDefault ==
    (/\ scoredBlocks # <<>>
     /\ (imageBounds.width = Int2Num(0) \/ imageBounds.height = Int2Num(0))) =>
        \A k \in 1..Len(scoredBlocks) :
            /\ scoredBlocks[k].metrics.relative.x = Half
            /\ scoredBlocks[k].metrics.relative.y = Half
            /\ IsFinite(scoredBlocks[k].score)

C7_SimilarityInUnitInterval ==
    ranker = "similarityDone" =>
        /\ NumLe(Int2Num(0), similarity)
        /\ NumLe(similarity, Int2Num(1))
        /\ str1 = str2 => similarity = Int2Num(1)

\* two equal non-empty strings
C7_Witness ==
    /\ ranker = "similarityDone"
    /\ str1 = str2
    /\ Len(str1) >= 2
    /\ similarity = Int2Num(1)

(***************************************************************************)
(* C8.  For a non-empty list findBestMatch returns a record whose          *)
(* totalScore is at least that of every record of the list, and of the     *)
(* records with that score the one that comes first in the list.           *)
(***************************************************************************)
C8_ReturnsFirstMaximum ==
    (ranker = "matchDone" /\ results # <<>>) =>
        /\ ~bestMatch.isNull
        /\ \E k \in 1..Len(results) :
              /\ bestMatch.movie = results[k]
              /\ bestMatch.score = TotalScore(results[k], searchTitle)
              /\ \A m \in 1..Len(results) :
                    NumLe(TotalScore(results[m], searchTitle), bestMatch.score)
              /\ \A m \in 1..(k - 1) :
                    NumLt(TotalScore(results[m], searchTitle), bestMatch.score)

(***************************************************************************)
(* C9.  findBestMatch returns null exactly when the list is empty.         *)
(***************************************************************************)
C9_NullIffEmpty ==
    ranker = "matchDone" => (bestMatch.isNull <=> results = <<>>)

\* a list of one record: that record is returned, not null
C9_Witness ==
    /\ ranker = "matchDone"
    /\ Len(results) = 1
    /\ ~bestMatch.isNull
    /\ bestMatch.movie = results[1]

(***************************************************************************)
(* C10.  The score of a record is max(titleScore, originalTitleScore) *    *)
(* 0.7 + min(popularity / 100, 1) * 0.2 + min(vote_count / 1000, 1) * 0.1, *)
(* where an absent popularity or vote_count counts as 0, and it is a       *)
(* number.                                                                 *)
(***************************************************************************)
OrZero(field) == IF field.defined THEN field ELSE Defined(Int2Num(0))

WithAbsentAsZero(movie) ==
    [movie EXCEPT !.popularity = OrZero(@), !.vote_count = OrZero(@)]

C10_AbsentFieldsCountZero ==
    ranker = "matchDone" =>
        \A k \in 1..Len(scoredResults) :
            /\ IsFinite(scoredResults[k].score)
            /\ scoredResults[k].score =
                  TotalScore(WithAbsentAsZero(scoredResults[k].movie),
                             searchTitle)

(***************************************************************************)
(* C11.  Two groups, the earlier one a lone article THE, A or AN and the   *)
(* later one all-uppercase, that are within the merge thresholds, are      *)
(* merged into one group whose text is the article, one space and the      *)
(* later text.                                                             *)
(***************************************************************************)
\* conditions (1) and (2) of the merge: the vertical distance of the centers
\* is below min(2 * height1, 2 * height2, 50) and the horizontal distance is
\* below half of max(width1, width2)
WithinMergeThresholds(g1, g2) ==
    /\ NumLt(NumAbs(NumSub(g1.metrics.center.y, g2.metrics.center.y)),
             NumMin(NumMin(NumMul(Int2Num(2), g1.metrics.dimensions.height),
                           NumMul(Int2Num(2), g2.metrics.dimensions.height)),
                    Int2Num(50)))
    /\ NumLt(NumAbs(NumSub(g1.metrics.center.x, g2.metrics.center.x)),
             NumMul(Half, NumMax(g1.metrics.dimensions.width,
                                 g2.metrics.dimensions.width)))

\* combineRelatedTitleParts has returned for an article and an uppercase group
ArticleThenUpperCase ==
    /\ pc = "rank"
    /\ Len(groups) = 2
    /\ groups[1].text \in Articles
    /\ IsUpperCaseText(groups[2].text)
    /\ WithinMergeThresholds(groups[1], groups[2])

\* the claim as it stands
C11_ArticleMergeLiteral ==
    ArticleThenUpperCase =>
        /\ Len(combined) = 1
        /\ combined[1].text = groups[1].text \o <<" ">> \o groups[2].text

\* C11, amended: the merged text is the article, one space and the later
\* text with the spacing of its colons normalised to ": "; it is the plain
\* concatenation when the later text has no colon.
C11_ArticleMerge ==
    ArticleThenUpperCase =>
        /\ Len(combined) = 1
        /\ combined[1].text =
              NormalizeColons(groups[1].text \o <<" ">> \o groups[2].text)
        /\ ":" \notin Range(groups[2].text) =>
              combined[1].text = groups[1].text \o <<" ">> \o groups[2].text
        /\ combined[1].blocks = groups[1].blocks \o groups[2].blocks

\* THE and MATRIX have become THE MATRIX
C11_Witness ==
    /\ ArticleThenUpperCase
    /\ groups[1].text = TxtThe
    /\ groups[2].text = TxtMatrix
    /\ Len(combined) = 1
    /\ combined[1].text = TxtThe \o <<" ">> \o TxtMatrix

(***************************************************************************)
(* C12.  applyGenericCleanup returns null or a non-empty string of         *)
(* letters, digits, spaces, colons, apostrophes and hyphens, without       *)
(* leading or trailing whitespace and without two whitespace characters in *)
(* a row; it returns null exactly when nothing remains after stripping.    *)
(***************************************************************************)
IsLetterDigitOrTitleMark(c) ==
    IsLetterC(c) \/ IsDigitC(c) \/ c \in {" ", ":", "'", "-"}

NothingRemains(candidate) ==
    \/ candidate.isNull
    \/ SelectSeq(SplitWhitespace(candidate.text), KeepWord) = <<>>

C12_CleanTitleShape ==
    (pc = "done" /\ called = {"applyGenericCleanup"}) =>
        /\ result.kind \in {"null", "title"}
        /\ result.kind = "null" <=> NothingRemains(titleCandidate)
        /\ result.kind = "title" =>
              /\ result.text # <<>>
              /\ \A k \in 1..Len(result.text) :
                    IsLetterDigitOrTitleMark(result.text[k])
              /\ ~IsSpaceC(result.text[1])
              /\ ~IsSpaceC(result.text[Len(result.text)])
              /\ \A k \in 1..(Len(result.text) - 1) :
                    ~(IsSpaceC(result.text[k]) /\ IsSpaceC(result.text[k + 1]))

(***************************************************************************)
(* C13.  In combineRelatedTitleParts a merge replaces two groups by one:   *)
(* the number of groups drops by exactly 1, the two groups are no longer   *)
(* in the list and the other groups stay, in their order.  The number of   *)
(* groups never grows and never drops below 1.                             *)
(***************************************************************************)
C13_MergeTakesOneGroupAway ==
    /\ [](pc \in {"merge", "rank"} => Len(combined) >= 1)
    /\ [][(pc = "merge" /\ pc' \in {"merge", "rank"}) =>
             Len(combined') <= Len(combined)]_vars
    /\ [][(pc = "merge" /\ combined' # combined) =>
             /\ Len(combined') = Len(combined) - 1
             /\ combined'[i].blocks = combined[i].blocks \o combined[j].blocks
             /\ combined[i] \notin Range(combined')
             /\ combined[j] \notin Range(combined')
             /\ \A k \in 1..Len(combined') :
                   k # i => combined'[k] = combined[IF k < j THEN k ELSE k + 1]
          ]_vars

\* the first of two merges has been made: three groups have become two
C13_Witness ==
    /\ pc = "merge"
    /\ changes
    /\ Len(groups) = 3
    /\ Len(combined) = 2
    /\ Len(combined[i].blocks) = 2

(***************************************************************************)
(* C14.  shouldCombineGroups(g1, g2) holds exactly when the two groups are *)
(* within the merge thresholds and the text rule holds: both texts are     *)
(* all-uppercase, longer than 1 character and not keyboard-like, or the    *)
(* text of g1 ends with a colon, or the text of g1 is THE, A or AN and the *)
(* text of g2 is all-uppercase.                                            *)
(***************************************************************************)
TextRuleHolds(g1, g2) ==
    \/ /\ IsUpperCaseText(g1.text) /\ IsUpperCaseText(g2.text)
       /\ Len(g1.text) > 1 /\ Len(g2.text) > 1
       /\ ~isKeyboardRelatedText(g1.text) /\ ~isKeyboardRelatedText(g2.text)
    \/ g1.text # <<>> /\ g1.text[Len(g1.text)] = ":"
    \/ g1.text \in Articles /\ IsUpperCaseText(g2.text)

C14_CombineExactlyWhen ==
    pc \in {"merge", "rank"} =>
        \A a, b \in 1..Len(combined) :
            a < b =>
                (shouldCombineGroups(combined[a], combined[b])
                    <=> (/\ WithinMergeThresholds(combined[a], combined[b])
                         /\ TextRuleHolds(combined[a], combined[b])))

(***************************************************************************)
(* C15.  What combineRelatedTitleParts returns is a fixed point: no pair   *)
(* of groups at positions a < b of the returned list satisfies             *)
(* shouldCombineGroups, groups made by the last merging pass included.     *)
(***************************************************************************)
C15_ReturnsFixedPoint ==
    pc = "rank" =>
        \A a, b \in 1..Len(combined) :
            a < b => ~shouldCombineGroups(combined[a], combined[b])

\* returned after a merge, with more than one group left to compare
C15_Witness ==
    /\ pc = "rank"
    /\ mergePasses >= 1
    /\ Len(combined) >= 2
    /\ \E k \in 1..Len(combined) : Len(combined[k].blocks) >= 2

(***************************************************************************)
(* C16.  The bounds of a group made by a merge are the union of the bounds *)
(* of its detections, and its width and height are those of that union.    *)
(***************************************************************************)
LeastOf(S) == CHOOSE v \in S : \A w \in S : NumLe(v, w)

GreatestOf(S) == CHOOSE v \in S : \A w \in S : NumLe(w, v)

UnionOfBounds(blocks) ==
    LET all == {blocks[k].metrics.bounds : k \in 1..Len(blocks)}
    IN  [left   |-> LeastOf({b.left : b \in all}),
         right  |-> GreatestOf({b.right : b \in all}),
         top    |-> LeastOf({b.top : b \in all}),
         bottom |-> GreatestOf({b.bottom : b \in all})]

C16_MergedBoundsAreUnion ==
    pc \in {"merge", "rank"} =>
        \A k \in 1..Len(combined) :
            combined[k] \notin Range(groups) =>
                LET union == UnionOfBounds(combined[k].blocks)
                    metrics == combined[k].metrics
                IN  /\ metrics.bounds = union
                    /\ metrics.dimensions.width =
                          NumSub(union.right, union.left)
                    /\ metrics.dimensions.height =
                          NumSub(union.bottom, union.top)

(***************************************************************************)
(* C17.  groupAdjacentBlocks walks the detections by ascending vertical    *)
(* center and starts a new group exactly when the vertical gap between the *)
(* detection and the last member of the running group exceeds 1.5 times    *)
(* the larger of their heights; otherwise it appends the detection to the  *)
(* running group.                                                          *)
(***************************************************************************)
StartsNewLine(last, current) ==
    NumLt(NumMul(Num(3, 2), NumMax(current.metrics.dimensions.height,
                                   last.metrics.dimensions.height)),
          NumAbs(NumSub(current.metrics.center.y, last.metrics.center.y)))

\* the lines of the walk: `lines` so far, `rest` still to walk
RECURSIVE WalkLines(_, _)
WalkLines(lines, rest) ==
    IF rest = <<>> THEN lines
    ELSE IF lines = <<>> THEN WalkLines(<< <<Head(rest)>> >>, Tail(rest))
    ELSE LET running == lines[Len(lines)]
             last == running[Len(running)]
         IN  IF StartsNewLine(last, Head(rest))
             THEN WalkLines(Append(lines, <<Head(rest)>>), Tail(rest))
             ELSE WalkLines([lines EXCEPT ![Len(lines)] =
                                Append(running, Head(rest))],
                            Tail(rest))

C17_LinesByDynamicGap ==
    pc = "select" =>
        [k \in 1..Len(groups) |-> groups[k].blocks]
            = WalkLines(<<>>, SortByCenterY(scoredBlocks))

WordCountMultiplier(wordCount) ==
    IF wordCount = 2 THEN Int2Num(3)
    ELSE IF wordCount \in {3, 4} THEN Int2Num(2)
    ELSE Int2Num(1)

\* the final score with that multiplier, the other multipliers as in the code
FinalScoreAsClaimed(group) ==
    LET base == SumScores(group.blocks)
        m == GroupFeatures(group)
        vertical == IF NumLt(m.verticalPosition, Num(4, 10)) THEN Int2Num(4)
                    ELSE IF NumLt(m.verticalPosition, Num(6, 10))
                         THEN Num(25, 10)
                         ELSE Int2Num(1)
        centered == IF NumLt(m.horizontalCenter, Num(15, 100))
                    THEN Num(25, 10) ELSE Int2Num(1)
        upper == IF m.isUpperCase THEN Num(18, 10) ELSE Int2Num(1)
        article == IF m.hasArticle THEN Num(14, 10) ELSE Int2Num(1)
        format == IF m.isTitleFormat THEN Num(22, 10) ELSE Int2Num(1)
    IN  IF m.isKeyboardLike THEN NumMul(base, Num(1, 100))
        ELSE NumMul(NumMul(NumMul(NumMul(NumMul(NumMul(base, vertical),
                                                centered),
                                         upper),
                                  article),
                           format),
                    WordCountMultiplier(m.wordCount))

C19_WordCountMultiplier ==
    pc = "rank" =>
        \A k \in 1..Len(combined) :
            FinalScore(combined[k]) = FinalScoreAsClaimed(combined[k])

(***************************************************************************)
(* C20.  The proximity term of a detection is 10 times the number of other *)
(* detections whose vertical center is within 20 pixels of its own, the    *)
(* detection itself not counted; without such a neighbour it is 0.         *)
(***************************************************************************)
OtherDetectionsNearby(k) ==
    { m \in 1..Len(cleanBlocks) :
        /\ m # k
        /\ NumLt(NumAbs(NumSub(MeanY(VerticesOf(cleanBlocks[k])),
                               MeanY(VerticesOf(cleanBlocks[m])))),
                 Int2Num(20)) }

C20_ProximityCountsOthers ==
    scoredBlocks # <<>> =>
        \A k \in 1..Len(cleanBlocks) :
            scoreProximity(VerticesOf(cleanBlocks[k]), cleanBlocks)
                = Int2Num(10 * Cardinality(OtherDetectionsNearby(k)))

(***************************************************************************)
(* src/unnamed/part_002: applyGenericCleanup of the serverless handler,    *)
(* which strips poster boilerplate and returns the title in title case.    *)
(***************************************************************************)
TxtPoster == <<"P","O","S","T","E","R">>

TxtOfficial == <<"O","F","F","I","C","I","A","L">>

TxtMovie == <<"M","O","V","I","E">>

TxtTrailer == <<"T","R","A","I","L","E","R">>

TxtComing == <<"C","O","M","I","N","G">>

TxtSoon == <<"S","O","O","N">>

TxtIn == <<"I","N">>

TxtTheaters == <<"T","H","E","A","T","E","R","S">>

TxtOf == <<"O","F">>

TxtHome == <<"H","O","M","E">>

TxtHeat == <<"H","e","a","t">>

\* .replace(/^WORD\s*/i, '')
StripLeadingWord(s, word) ==
    IF StartsWith(ToUpperCase(s), word)
    THEN TrimStart(SubSeq(s, Len(word) + 1, Len(s)))
    ELSE s

\* .replace(/^(THE\s+)?POSTER\s*/i, '')
StripLeadingPoster(s) ==
    LET afterThe == TrimStart(SubSeq(s, Len(TxtThe) + 1, Len(s)))
    IN  IF /\ StartsWith(ToUpperCase(s), TxtThe)
           /\ Len(afterThe) < Len(s) - Len(TxtThe)
           /\ StartsWith(ToUpperCase(afterThe), TxtPoster)
        THEN TrimStart(SubSeq(afterThe, Len(TxtPoster) + 1, Len(afterThe)))
        ELSE StripLeadingWord(s, TxtPoster)

\* .replace(/\s*WORD\s*$/i, '')
StripTrailingWord(s, word) ==
    LET t == TrimEnd(s)
    IN  IF EndsWith(ToUpperCase(t), word)
        THEN TrimEnd(SubSeq(t, 1, Len(t) - Len(word)))
        ELSE s

\* .replace(/\s*FIRST\s+SECOND\s*$/i, '')
StripTrailingPair(s, first, second) ==
    LET t == TrimEnd(s)
        a == SubSeq(t, 1, Len(t) - Len(second))
        b == TrimEnd(a)
    IN  IF /\ EndsWith(ToUpperCase(t), second)
           /\ Len(b) < Len(a)
           /\ EndsWith(ToUpperCase(b), first)
        THEN TrimEnd(SubSeq(b, 1, Len(b) - Len(first)))
        ELSE s

\* .toLowerCase().replace(/\b\w/g, l => l.toUpperCase())
ToTitleCase(s) ==
    [k \in 1..Len(s) |->
        IF IsWordC(s[k]) /\ (k = 1 \/ ~IsWordC(s[k - 1]))
        THEN ToUpperC(ToLowerC(s[k]))
        ELSE ToLowerC(s[k])]

\* [\w\s\-']
IsHandlerTitleChar(c) == IsWordC(c) \/ IsSpaceC(c) \/ c \in {"-", "'"}

applyGenericCleanupOfHandler(text) ==
    IF text.isNull \/ text.text = <<>> THEN NullTitle
    ELSE LET spaced == [k \in 1..Len(text.text) |->
                           IF IsHandlerTitleChar(text.text[k])
                           THEN text.text[k] ELSE " "]
             cleaned == Trim(CollapseWhitespace(spaced))
             stripped ==
                 Trim(StripTrailingPair(
                        StripTrailingPair(
                          StripTrailingWord(
                            StripLeadingWord(
                              StripTrailingWord(StripLeadingPoster(cleaned),
                                                TxtMovie),
                              TxtOfficial),
                            TxtTrailer),
                          TxtComing, TxtSoon),
                        TxtIn, TxtTheaters))
         IN  IF Len(stripped) < 1 THEN NullTitle
             ELSE [isNull |-> FALSE, text |-> ToTitleCase(stripped)]

(***************************************************************************)
(* SpecTitleWords: one call of applyGenericCleanup on a winning text made  *)
(* of whole words, by the server (src/server.js 270-273) or by the         *)
(* serverless handler (src/unnamed/part_002 155-158).                      *)
(***************************************************************************)
MaxTitleWords == 3

TitleWords ==
    { TxtPoster, TxtOfficial, TxtMovie, TxtTrailer, TxtComing, TxtSoon,
      TxtIn, TxtTheaters, TxtThe, TxtOf, TxtMatrix, TxtHome, TxtHeat }

WordCandidates ==
    { [isNull |-> FALSE, text |-> JoinSpace(ws)] :
        ws \in SeqsUpTo(TitleWords, MaxTitleWords) \ {<<>>} }

InitTitleWords ==
    /\ Constructed
    /\ textBlocks = <<>>
    /\ pc = "cleanup"
    /\ cleanBlocks = <<>>
    /\ scoredBlocks = <<>>
    /\ groups = <<>>
    /\ combined = <<>>
    /\ i = 1
    /\ j = 2
    /\ changes = FALSE
    /\ mergePasses = 0
    /\ titleCandidate \in WordCandidates
    /\ result = Pending
    /\ called = {}
    /\ calls = 1
    /\ history = {}
    /\ RankerIdle

CleanupOfHandler ==
    /\ pc = "cleanup"
    /\ UNCHANGED << calls, history, rankerVars, appVars >>
    /\ called' = called \cup {"part_002.applyGenericCleanup"}
    /\ result' = Returned(applyGenericCleanupOfHandler(titleCandidate))
    /\ pc' = "done"
    /\ UNCHANGED << textBlocks, cleanBlocks, scoredBlocks, groups, combined,
                    i, j, changes, mergePasses, titleCandidate >>

NextTitleWords ==
    \/ Cleanup
    \/ CleanupOfHandler

SpecTitleWords == InitTitleWords /\ [][NextTitleWords]_vars

(***************************************************************************)
(* C21.  A title returned by cleanup never begins with the word POSTER or  *)
(* OFFICIAL and never ends with MOVIE, TRAILER, COMING SOON or IN          *)
(* THEATERS, in any letter case, whatever the order and combination in     *)
(* which these words stood in the winning text.                            *)
(***************************************************************************)
BeginsWithWord(text, word) ==
    \/ ToUpperCase(text) = word
    \/ StartsWith(ToUpperCase(text), word \o <<" ">>)

EndsWithWord(text, word) ==
    \/ ToUpperCase(text) = word
    \/ EndsWith(ToUpperCase(text), <<" ">> \o word)

HasBoilerplateAtEdges(text) ==
    \/ BeginsWithWord(text, TxtPoster)
    \/ BeginsWithWord(text, TxtOfficial)
    \/ EndsWithWord(text, TxtMovie)
    \/ EndsWithWord(text, TxtTrailer)
    \/ EndsWithWord(text, TxtComing \o <<" ">> \o TxtSoon)
    \/ EndsWithWord(text, TxtIn \o <<" ">> \o TxtTheaters)

C21_NoBoilerplateAtEdges ==
    (pc = "done" /\ result.kind = "title") =>
        ~HasBoilerplateAtEdges(result.text)

(***************************************************************************)
(* C22.  Cleanup removes nothing but disallowed characters, redundant      *)
(* whitespace and the listed boilerplate: every word of the winning text   *)
(* that consists only of letters and is not boilerplate, the short words   *)
(* and articles THE, OF, IN, AN among them, stands in the returned title,  *)
(* in the same order; the text "THE MATRIX" yields the title "THE MATRIX". *)
(***************************************************************************)
BoilerplateWords ==
    { TxtPoster, TxtOfficial, TxtMovie, TxtTrailer, TxtComing, TxtSoon,
      TxtTheaters }

IsPlainWordAt(words, k) ==
    /\ words[k] # <<>>
    /\ AllChars(words[k], IsLetterC)
    /\ ToUpperCase(words[k]) \notin BoilerplateWords
    /\ ~ /\ ToUpperCase(words[k]) = TxtIn
         /\ k < Len(words)
         /\ ToUpperCase(words[k + 1]) = TxtTheaters

RECURSIVE PlainWordsFrom(_, _)
PlainWordsFrom(words, k) ==
    IF k > Len(words) THEN <<>>
    ELSE (IF IsPlainWordAt(words, k) THEN << ToUpperCase(words[k]) >>
          ELSE <<>>) \o PlainWordsFrom(words, k + 1)

RECURSIVE IsSubsequence(_, _)
IsSubsequence(a, b) ==
    IF a = <<>> THEN TRUE
    ELSE IF b = <<>> THEN FALSE
    ELSE IF a[1] = b[1] THEN IsSubsequence(Tail(a), Tail(b))
    ELSE IsSubsequence(a, Tail(b))

UpperWords(text) ==
    LET words == SplitWhitespace(text)
    IN  [k \in 1..Len(words) |-> ToUpperCase(words[k])]

C22_KeepsPlainWords ==
    (pc = "done" /\ "applyGenericCleanup" \in called) =>
        LET plain == PlainWordsFrom(SplitWhitespace(titleCandidate.text), 1)
        IN  /\ plain # <<>> =>
                  /\ result.kind = "title"
                  /\ IsSubsequence(plain, UpperWords(result.text))
            /\ titleCandidate.text = TxtThe \o <<" ">> \o TxtMatrix =>
                  result = [kind |-> "title",
                            text |-> TxtThe \o <<" ">> \o TxtMatrix]

(***************************************************************************)
(* C23.  The distance calculateSimilarity leaves in the last cell of its   *)
(* matrix is the Levenshtein distance of the two strings, by the standard  *)
(* recurrence with insertion, deletion and substitution at cost 1 each and *)
(* no transposition, so that the value returned is                         *)
(* 1 - distance / max(len(a), len(b)) when a string is non-empty.          *)
(***************************************************************************)
RECURSIVE editDistance(_, _)
editDistance(a, b) ==
    IF a = <<>> THEN Len(b)
    ELSE IF b = <<>> THEN Len(a)
    ELSE Min3(editDistance(Tail(a), Tail(b))
                  + (IF Head(a) = Head(b) THEN 0 ELSE 1),
              editDistance(Tail(a), b) + 1,
              editDistance(a, Tail(b)) + 1)

C23_LastCellIsLevenshtein ==
    (ranker = "similarityDone" /\ (str1 # <<>> \/ str2 # <<>>)) =>
        LET longest == IF Len(str1) >= Len(str2) THEN Len(str1) ELSE Len(str2)
        IN  similarity =
                NumSub(Int2Num(1), Num(editDistance(str1, str2), longest))

\* "ab" against "baa": one insertion and one substitution
C23_Witness ==
    /\ ranker = "similarityDone"
    /\ str1 = <<"a", "b">>
    /\ str2 = <<"b", "a", "a">>
    /\ editDistance(str1, str2) = 2
    /\ similarity = Num(1, 3)

(***************************************************************************)
(* C24.  Grouping and merging keep a partition of the scored detections:   *)
(* after groupAdjacentBlocks, and after every merge step of                *)
(* combineRelatedTitleParts, each scored detection is a member of exactly  *)
(* one group, and each group's score is the sum of its members' scores.    *)
(***************************************************************************)
RECURSIVE MembersOf(_)
MembersOf(gs) ==
    IF gs = <<>> THEN <<>> ELSE Head(gs).blocks \o MembersOf(Tail(gs))

TimesIn(list, x) == Cardinality({k \in 1..Len(list) : list[k] = x})

IsPartitionOfScoredBlocks(gs) ==
    /\ Len(MembersOf(gs)) = Len(scoredBlocks)
    /\ \A k \in 1..Len(scoredBlocks) :
          TimesIn(MembersOf(gs), scoredBlocks[k])
              = TimesIn(scoredBlocks, scoredBlocks[k])
    /\ \A g \in 1..Len(gs) :
          /\ gs[g].blocks # <<>>
          /\ gs[g].score = SumScores(gs[g].blocks)

C24_GroupsPartitionDetections ==
    /\ "groupAdjacentBlocks" \in called => IsPartitionOfScoredBlocks(groups)
    /\ "combineRelatedTitleParts" \in called =>
          IsPartitionOfScoredBlocks(combined)

\* grouping put two detections in one group, and a merge then joined that
\* group with the third detection
C24_Witness ==
    /\ "combineRelatedTitleParts" \in called
    /\ Len(scoredBlocks) = 3
    /\ Len(groups) = 2
    /\ Len(combined) = 1
    /\ Len(combined[1].blocks) = 3

(***************************************************************************)
(* src/app.js: FreeARMovieScanner, with the VisionService it scans through *)
(* and the search of TMDbService.  A call of scanAtPosition or of          *)
(* extractText is a task                                                   *)
(*   [caller, pc, requests, log, text]                                     *)
(* where pc is the await the call is suspended in, requests counts the     *)
(* requests of callVisionAPI the call has issued and log holds the         *)
(* responses to them.  The DOM and three.js are taken to work.            *)
(***************************************************************************)
MaxTaps == 3

MaxExtractCalls == 2

NewTask(caller, at) ==
    [caller |-> caller, pc |-> at, requests |-> 0, log |-> <<>>,
     text |-> <<>>]

\* what callVisionAPI can come back with: a rejected or non-ok request, a
\* response without text, a blank text, a title
VisionResponses ==
    { [ok |-> FALSE, text |-> <<>>], [ok |-> TRUE, text |-> <<>>],
      [ok |-> TRUE, text |-> <<" ">>], [ok |-> TRUE, text |-> TxtDawn] }

\* a JavaScript value: undefined, or an array of records
Undefined == [kind |-> "undefined", items |-> <<>>]

ArrayOf(items) == [kind |-> "array", items |-> items]

IsTruthy(value) == value.kind # "undefined"

\* what searchMovie can settle with: a rejection, or the `results` of the
\* response body
SearchOutcomes ==
    { [threw |-> TRUE, results |-> Undefined] } \cup
    { [threw |-> FALSE, results |-> r] :
        r \in { Undefined, ArrayOf(<<>>), ArrayOf(<< MovieAb >>),
                ArrayOf(<< MovieAb, MovieBa >>) } }

\* `this.retryCount <= this.maxRetries`
ShouldRetryOnceMore(count) == count <= maxRetries

\* `this.retryCount < this.maxRetries`
ShouldRetry(count) == count < maxRetries

\* extractText up to its first await
extractText(task) ==
    IF ~isInitialized THEN [task EXCEPT !.pc = "threw"]
    ELSE [task EXCEPT !.pc = "fetch", !.requests = @ + 1]

\* the `finally` of scanAtPosition, after the status of the branch taken
ScanEnds(t, status) ==
    /\ tasks' = [tasks EXCEPT ![t] = NewTask("scan", "done")]
    /\ arStatus' = status
    /\ isScanning' = FALSE
    /\ statusTimers' = statusTimers + 1

\* task t goes on as `task`; when that settles the extractText a scan
\* awaits, the scan runs on to its next await or to its end
Settle(t, task) ==
    IF task.caller = "scan" /\ task.pc \in {"returned", "threw"}
    THEN IF task.pc = "returned" /\ Trim(task.text) # <<>>
         THEN /\ tasks' = [tasks EXCEPT
                             ![t] = [task EXCEPT !.pc = "searchMovie",
                                                 !.log = <<>>]]
              /\ UNCHANGED << arStatus, isScanning, statusTimers >>
         ELSE ScanEnds(t, IF task.pc = "threw" THEN "Scan failed"
                          ELSE "No text detected")
    ELSE /\ tasks' = [tasks EXCEPT ![t] = task]
         /\ UNCHANGED << arStatus, isScanning, statusTimers >>

\* VisionService.init settles and FreeARMovieScanner.init runs on
VisionInitReturns ==
    /\ initPc = "init"
    /\ \E configured \in BOOLEAN :
          /\ isInitialized' = configured
          /\ isOCRReady' = configured
          /\ arStatus' = IF configured THEN "Ready to start AR"
                         ELSE "Setup required - Check Vision API credentials"
    /\ initPc' = "done"
    /\ UNCHANGED << isARStarted, isScanning, movieMarkers, markerIdCounter,
                    tasks, taps, statusTimers, retryCount, limiterVars,
                    titleVars, rankerVars >>

\* StartAR without the isOCRReady test of startAR
StartARUnchecked ==
    /\ ~isARStarted
    /\ isARStarted' = TRUE
    /\ arStatus' = "AR Active - Point at poster and tap"
    /\ UNCHANGED << isScanning, isOCRReady, movieMarkers, markerIdCounter,
                    initPc, tasks, taps, statusTimers, visionVars,
                    limiterVars, titleVars, rankerVars >>

\* the start button while AR is off: toggleAR, startAR
StartAR ==
    /\ ~isARStarted
    /\ IF isOCRReady
       THEN /\ isARStarted' = TRUE
            /\ arStatus' = "AR Active - Point at poster and tap"
       ELSE /\ arStatus' = "Starting AR..."
            /\ UNCHANGED isARStarted
    /\ UNCHANGED << isScanning, isOCRReady, movieMarkers, markerIdCounter,
                    initPc, tasks, taps, statusTimers, visionVars,
                    limiterVars, titleVars, rankerVars >>

\* the start button while AR is on: toggleAR, stopAR, clearAllMarkers
StopAR ==
    /\ isARStarted
    /\ isARStarted' = FALSE
    /\ movieMarkers' = {}
    /\ arStatus' = "AR Stopped"
    /\ UNCHANGED << isScanning, isOCRReady, markerIdCounter, initPc, tasks,
                    taps, statusTimers, visionVars, limiterVars, titleVars,
                    rankerVars >>

\* Tap without the isScanning test of scanAtPosition
TapWhileScanning ==
    /\ taps < MaxTaps
    /\ taps' = taps + 1
    /\ IF isARStarted /\ ~(~isARStarted \/ ~isOCRReady)
       THEN /\ isScanning' = TRUE
            /\ arStatus' = "Scanning poster..."
            /\ tasks' = Append(tasks, NewTask("scan", "captureFrame"))
       ELSE UNCHANGED << isScanning, arStatus, tasks >>
    /\ UNCHANGED << isARStarted, isOCRReady, movieMarkers, markerIdCounter,
                    initPc, statusTimers, visionVars, limiterVars, titleVars,
                    rankerVars >>

\* a tap on the screen: the document listener, and scanAtPosition up to
\* `await this.captureFrame()`
Tap ==
    /\ taps < MaxTaps
    /\ taps' = taps + 1
    /\ IF isARStarted /\ ~(isScanning \/ ~isARStarted \/ ~isOCRReady)
       THEN /\ isScanning' = TRUE
            /\ arStatus' = "Scanning poster..."
            /\ tasks' = Append(tasks, NewTask("scan", "captureFrame"))
       ELSE UNCHANGED << isScanning, arStatus, tasks >>
    /\ UNCHANGED << isARStarted, isOCRReady, movieMarkers, markerIdCounter,
                    initPc, statusTimers, visionVars, limiterVars, titleVars,
                    rankerVars >>

\* captureFrame settles: without a video element it throws, otherwise the
\* scan calls extractText
CaptureFrameReturns ==
    /\ \E t \in 1..Len(tasks), video \in BOOLEAN :
          /\ tasks[t].pc = "captureFrame"
          /\ IF video THEN Settle(t, extractText(tasks[t]))
             ELSE ScanEnds(t, "Scan failed")
    /\ UNCHANGED << isARStarted, isOCRReady, movieMarkers, markerIdCounter,
                    initPc, taps, visionVars, limiterVars, titleVars,
                    rankerVars >>

\* callVisionAPI settles: extractText returns the text, or
\* handleNoTextDetected throws inside the try, or the request failed; the
\* last two go through handleExtractionError
VisionResponds ==
    /\ \E t \in 1..Len(tasks), response \in VisionResponses :
          /\ tasks[t].pc = "fetch"
          /\ LET task == [tasks[t] EXCEPT !.log = Append(@, response)]
             IN  IF response.ok /\ response.text # <<>>
                 THEN /\ retryCount' = 0
                      /\ Settle(t, [task EXCEPT !.pc = "returned",
                                                !.text = response.text])
                 ELSE IF ShouldRetry(retryCount)
                 THEN /\ retryCount' = retryCount + 1
                      /\ Settle(t, [task EXCEPT !.pc = "backoff"])
                 ELSE /\ retryCount' = 0
                      /\ Settle(t, [task EXCEPT !.pc = "threw"])
    /\ UNCHANGED << isARStarted, isOCRReady, movieMarkers, markerIdCounter,
                    initPc, taps, isInitialized, limiterVars, titleVars,
                    rankerVars >>

\* the timer of handleExtractionError fires: `return this.extractText(canvas)`
RetryTimerFires ==
    /\ \E t \in 1..Len(tasks) :
          /\ tasks[t].pc = "backoff"
          /\ Settle(t, extractText(tasks[t]))
    /\ UNCHANGED << isARStarted, isOCRReady, movieMarkers, markerIdCounter,
                    initPc, taps, visionVars, limiterVars, titleVars,
                    rankerVars >>

\* searchMovie settles and scanAtPosition runs to its end; placeARMovieMarker
\* stores the value searchMovie returned, and an array has no `title`
SearchResponds ==
    /\ \E t \in 1..Len(tasks), outcome \in SearchOutcomes :
          /\ tasks[t].pc = "searchMovie"
          /\ IF outcome.threw
             THEN /\ ScanEnds(t, "Scan failed")
                  /\ UNCHANGED << movieMarkers, markerIdCounter >>
             ELSE IF IsTruthy(outcome.results)
             THEN /\ markerIdCounter' = markerIdCounter + 1
                  /\ movieMarkers' =
                        movieMarkers \cup
                        { [markerId |-> markerIdCounter + 1,
                           movieData |-> outcome.results] }
                  /\ ScanEnds(t, "Found: undefined")
             ELSE /\ ScanEnds(t, "Movie not found")
                  /\ UNCHANGED << movieMarkers, markerIdCounter >>
    /\ UNCHANGED << isARStarted, isOCRReady, initPc, taps, visionVars,
                    limiterVars, titleVars, rankerVars >>

\* the close button of a card: removeMarker
RemoveMarker ==
    /\ \E marker \in movieMarkers : movieMarkers' = movieMarkers \ {marker}
    /\ UNCHANGED << isARStarted, isScanning, isOCRReady, markerIdCounter,
                    arStatus, initPc, tasks, taps, statusTimers, visionVars,
                    limiterVars, titleVars, rankerVars >>

\* the 3 s timer set in the `finally` of scanAtPosition
StatusTimerFires ==
    /\ statusTimers > 0
    /\ statusTimers' = statusTimers - 1
    /\ arStatus' = IF isARStarted THEN "AR Active - Point at poster and tap"
                   ELSE arStatus
    /\ UNCHANGED << isARStarted, isScanning, isOCRReady, movieMarkers,
                    markerIdCounter, initPc, tasks, taps, visionVars,
                    limiterVars, titleVars, rankerVars >>

InitApp ==
    /\ TitleIdle
    /\ RankerIdle
    /\ Constructed

NextApp ==
    \/ VisionInitReturns
    \/ StartAR
    \/ StopAR
    \/ Tap
    \/ CaptureFrameReturns
    \/ VisionResponds
    \/ RetryTimerFires
    \/ SearchResponds
    \/ RemoveMarker
    \/ StatusTimerFires

SpecApp == InitApp /\ [][NextApp]_vars

\* every await of a scan settles
SpecAppFair ==
    /\ SpecApp
    /\ WF_vars(CaptureFrameReturns)
    /\ WF_vars(VisionResponds)
    /\ WF_vars(RetryTimerFires)
    /\ WF_vars(SearchResponds)

(***************************************************************************)
(* SpecVision: a VisionService and a client that calls extractText, one    *)
(* call at a time, before and after init has settled.                      *)
(***************************************************************************)
CallExtractText ==
    /\ Len(tasks) < MaxExtractCalls
    /\ \A t \in 1..Len(tasks) : tasks[t].pc \in {"returned", "threw"}
    /\ tasks' = Append(tasks, extractText(NewTask("client", "call")))
    /\ UNCHANGED << isARStarted, isScanning, isOCRReady, movieMarkers,
                    markerIdCounter, arStatus, initPc, taps, statusTimers,
                    visionVars, limiterVars, titleVars, rankerVars >>

NextVision ==
    \/ VisionInitReturns
    \/ CallExtractText
    \/ VisionResponds
    \/ RetryTimerFires

SpecVision == InitApp /\ [][NextVision]_vars

(***************************************************************************)
(* C25.  Whenever AR is stopped (isARStarted is false) the marker map      *)
(* movieMarkers is empty, in every interleaving of taps, Start/Exit        *)
(* presses and completions of scans, also when stopAR runs while a scan's  *)
(* OCR or database request is in flight and the scan completes afterwards. *)
(***************************************************************************)
C25_NoMarkersWhileStopped ==
    ~isARStarted => movieMarkers = {}

(***************************************************************************)
(* C26.  At most one scan is in progress at any time; a tap that arrives   *)
(* while isScanning is true starts no capture, OCR or database request;    *)
(* and every scan that starts sets isScanning back to false in the end,    *)
(* however it ends, so that a later tap can start a new scan.              *)
(***************************************************************************)
ScansInProgress ==
    {t \in 1..Len(tasks) : tasks[t].caller = "scan" /\ tasks[t].pc # "done"}

C26_OneScanAtATime ==
    /\ [](/\ Cardinality(ScansInProgress) <= 1
          /\ isScanning <=> ScansInProgress # {})
    /\ [][(isScanning /\ taps' = taps + 1) => tasks' = tasks]_vars
    /\ (isScanning ~> ~isScanning)

\* a scan has ended, a tap was dropped and a later tap has begun a scan
C26_Witness ==
    /\ taps = 3
    /\ Len(tasks) = 2
    /\ tasks[1].pc = "done"
    /\ tasks[2].pc = "captureFrame"
    /\ isScanning

(***************************************************************************)
(* C27.  A top-level extractText on an initialized service with retryCount *)
(* 0 issues at most maxRetries + 1 = 4 requests and then returns a         *)
(* non-empty text or throws, for failed requests and for responses without *)
(* text alike; retryCount stays within 0..maxRetries and is 0 again when   *)
(* the call has returned or thrown; a call on an uninitialized service     *)
(* throws without issuing a request.                                       *)
(***************************************************************************)
C27_RetriesBounded ==
    /\ retryCount \in 0..maxRetries
    /\ (\A t \in 1..Len(tasks) : tasks[t].pc \in {"returned", "threw"}) =>
          retryCount = 0
    /\ \A t \in 1..Len(tasks) :
          /\ tasks[t].requests <= maxRetries + 1
          /\ tasks[t].requests <= 4
          /\ tasks[t].pc \in {"fetch", "backoff", "returned", "threw"}
          /\ tasks[t].pc = "returned" => tasks[t].text # <<>>
          /\ tasks[t].pc = "backoff" => retryCount = tasks[t].requests
          /\ ~isInitialized =>
                tasks[t].pc = "threw" /\ tasks[t].requests = 0

\* a call that threw after four requests, a failed one and one without text
\* among them
C27_Witness ==
    \E t \in 1..Len(tasks) :
        /\ tasks[t].pc = "threw"
        /\ tasks[t].requests = 4
        /\ [ok |-> FALSE, text |-> <<>>] \in Range(tasks[t].log)
        /\ [ok |-> TRUE, text |-> <<>>] \in Range(tasks[t].log)

(***************************************************************************)
(* C28.  scanAtPosition places a marker only when the search for the       *)
(* detected title produced at least one record, and the marker carries one *)
(* single record with a title; when the search returns an empty list no    *)
(* marker is placed and the status becomes 'Movie not found'.              *)
(***************************************************************************)
\* an array, of one record even, is not a record: it has no `title`
IsOneRecordWithTitle(value) == value.kind = "record"

C28_MarkerCarriesOneRecord ==
    \A marker \in movieMarkers :
        /\ marker.movieData.items # <<>>
        /\ IsOneRecordWithTitle(marker.movieData)

(***************************************************************************)
(* C30.  In the application controller isARStarted implies isOCRReady in   *)
(* every reachable state: AR can only be started after VisionService.init  *)
(* has succeeded, a failed init leaves AR impossible to start, and no scan *)
(* calls extractText on an uninitialized Vision service.                   *)
(***************************************************************************)
C30_StartedImpliesReady ==
    /\ isARStarted => isOCRReady
    /\ isOCRReady => (isInitialized /\ initPc = "done")
    /\ ScansInProgress # {} => isInitialized

\* AR is on and a scan is inside extractText
C30_Witness ==
    /\ isARStarted
    /\ \E t \in 1..Len(tasks) :
          tasks[t].caller = "scan" /\ tasks[t].pc = "fetch"

(***************************************************************************)
(* src/src/services/TMDbService.js: checkRateLimit, called by              *)
(* getMovieDetails calls that may be in flight together.  A suspended call *)
(* is [caller, wakeAt].  Time is in ms and moves in steps of TickMillis;   *)
(* windows maps the time of each reset of the window to the number of      *)
(* callers let pass from that reset on and before WindowMillis have gone   *)
(* by, counted up to one above the limit.                                  *)
(***************************************************************************)
MaxCallers == 2

TickMillis == 5000

MaxNow == 15000

\* `this.rateLimiter.requests >= this.rateLimiter.maxRequestsPer10Sec`
LimitReached(limiter) == limiter.requests >= maxRequestsPer10Sec

\* `requests = 0; resetTime = <now> + 10000`
ResetWindow(limiter, t) == [requests |-> 0, resetTime |-> t + WindowMillis]

\* `this.rateLimiter.requests++`
LetPass(limiter) == [limiter EXCEPT !.requests = @ + 1]

\* the windows after a reset at time t
Opened(ws, t) ==
    [w \in DOMAIN ws \cup {t} |-> IF w \in DOMAIN ws THEN ws[w] ELSE 0]

\* the windows after a caller passed at time t
Counted(ws, t) ==
    [w \in DOMAIN ws |->
        IF w <= t /\ t < w + WindowMillis /\ ws[w] <= maxRequestsPer10Sec
        THEN ws[w] + 1 ELSE ws[w]]

\* a getMovieDetails call reaches `await this.checkRateLimit()`:
\* checkRateLimit to its end, or to its await
CheckRateLimit ==
    /\ \E c \in 1..MaxCallers :
          /\ \A s \in limited : s.caller # c
          /\ LET rolls == now > rateLimiter.resetTime
                 limiter == IF rolls THEN ResetWindow(rateLimiter, now)
                            ELSE rateLimiter
                 opened == IF rolls THEN Opened(windows, now) ELSE windows
             IN  IF LimitReached(limiter)
                 THEN /\ rateLimiter' = limiter
                      /\ limited' =
                            limited \cup
                            { [caller |-> c, wakeAt |-> limiter.resetTime] }
                      /\ windows' = opened
                 ELSE /\ rateLimiter' = LetPass(limiter)
                      /\ limited' = limited
                      /\ windows' = Counted(opened, now)
    /\ UNCHANGED << now, scannerVars, visionVars, titleVars, rankerVars >>

\* the timer of a suspended call fires: the rest of checkRateLimit
LimitTimerFires ==
    /\ \E s \in limited :
          /\ now >= s.wakeAt
          /\ rateLimiter' = LetPass(ResetWindow(rateLimiter, now))
          /\ limited' = limited \ {s}
          /\ windows' = Counted(Opened(windows, now), now)
    /\ UNCHANGED << now, scannerVars, visionVars, titleVars, rankerVars >>

\* time passes
Tick ==
    /\ now < MaxNow
    /\ now' = now + TickMillis
    /\ UNCHANGED << rateLimiter, limited, windows, scannerVars, visionVars,
                    titleVars, rankerVars >>

NextLimiter ==
    \/ CheckRateLimit
    \/ LimitTimerFires
    \/ Tick

SpecLimiter == InitApp /\ [][NextLimiter]_vars

=============================================================================
